---- MODULE Spec2Model ----
(***************************************************************************)
(* A model of the discovery-and-scan engine of pdive2 (src/main.go): target *)
(* expansion, the two-phase host discovery, the port scan with its nested   *)
(* worker loops, the fast-scanner adapter, service identification and the   *)
(* lock-guarded result store.                                               *)
(*                                                                          *)
(* The main goroutine is a program counter pc over the statements of        *)
(* RunScan and the functions it calls.  The goroutines of a worker loop are *)
(* anonymous (they are closures without state of their own): a loop is its  *)
(* channel, the set of items being probed and the WaitGroup counter.        *)
(***************************************************************************)
EXTENDS Integers, Sequences, FiniteSets, TLC

\* ----------------------------------------------------------------- bounds

\* Longest target list given on the command line.
MaxTargets == 2
\* Largest configured thread count (-T).
MaxThreads == 2

\* ---------------------------------------------------------------- helpers

min(a, b) == IF a < b THEN a ELSE b

Range(s) == {s[k] : k \in DOMAIN s}

\* A dedup that removes nothing.
keepAll(slice) == slice

RECURSIVE removeDuplicates(_)
removeDuplicates(slice) ==
  IF slice = <<>> THEN <<>>
  ELSE LET front == removeDuplicates(SubSeq(slice, 1, Len(slice) - 1))
           item  == slice[Len(slice)]
       IN  IF item \in Range(front) THEN front ELSE Append(front, item)

\* A Go map iterated with range: every order of the keys can come out.
Orders(S) == {s \in [1..Cardinality(S) -> S] : Range(s) = S}

Bump(f, k) == IF k \in DOMAIN f THEN [f EXCEPT ![k] = @ + 1] ELSE f @@ (k :> 1)

Count(f, k) == IF k \in DOMAIN f THEN f[k] ELSE 0

\* ------------------------------------------------------------- IP and CIDR

Pow2(n) == CASE n = 0 -> 1 [] n = 1 -> 2 [] n = 2 -> 4 [] n = 3 -> 8 [] n = 4 -> 16
             [] n = 5 -> 32 [] n = 6 -> 64 [] n = 7 -> 128 [] n = 8 -> 256

\* The number of mask bits that fall into byte j (1..4) of a mask with `ones` leading ones.
MaskBits(ones, j) == min(8, IF ones - 8 * (j - 1) < 0 THEN 0 ELSE ones - 8 * (j - 1))

\* byte AND mask byte: the low 8 - bits bits are cleared.
AndMask(b, bits) == b - (b % Pow2(8 - bits))

\* net.IP.Mask
Mask(ip, ones) == [j \in 1..4 |-> AndMask(ip[j], MaskBits(ones, j))]

\* net.IPNet.Contains for the network (Mask(ip, ones), ones)
Contains(network, ones, ip) == \A j \in 1..4 : AndMask(ip[j], MaskBits(ones, j)) = network[j]

\* inc: add one to the address, byte by byte from the last, carrying while a byte wraps to 0.
RECURSIVE incFrom(_, _)
incFrom(ip, j) ==
  IF j < 1 THEN ip
  ELSE LET b == (ip[j] + 1) % 256
           next == [ip EXCEPT ![j] = b]
       IN  IF b > 0 THEN next ELSE incFrom(next, j - 1)

inc(ip) == incFrom(ip, 4)

\* net.IP.String of an IPv4 address
IPString(ip) == ToString(ip[1]) \o "." \o ToString(ip[2]) \o "." \o ToString(ip[3]) \o "." \o ToString(ip[4])

\* for ip := ip.Mask(ipnet.Mask); ipnet.Contains(ip); inc(ip) { allHosts = append(allHosts, ip.String()) }
RECURSIVE cidrLoop(_, _, _, _)
cidrLoop(ip, network, ones, acc) ==
  IF Contains(network, ones, ip) THEN cidrLoop(inc(ip), network, ones, Append(acc, IPString(ip)))
  ELSE acc

expandCIDR(t) == cidrLoop(Mask(t.ip, t.ones), Mask(t.ip, t.ones), t.ones, <<>>)

\* ---------------------------------------------------------------- targets
\* A target string, with what net.ParseCIDR / net.ParseIP make of it:
\*   kind "cidr": parses as a CIDR block (ip, ones);  kind "ip": parses as an address;
\*   kind "name": neither, resolved by net.LookupHost or not;
\*   kind "badcidr": contains "/" and parses as nothing.

Target(kind, text, ip, ones) == [kind |-> kind, text |-> text, ip |-> ip, ones |-> ones]

TgtIP      == Target("ip", "10.0.0.1", <<10, 0, 0, 1>>, 32)
TgtCIDR    == Target("cidr", "10.0.0.1/32", <<10, 0, 0, 1>>, 32)
TgtName    == Target("name", "example.com", <<0, 0, 0, 0>>, 0)

TargetUniverse == {TgtIP, TgtCIDR, TgtName}

hasSlash(t) == t.kind \in {"cidr", "badcidr"}

\* isValidTarget, given the names the resolver answers for
isValidTarget(t, resolvable) ==
  \/ t.kind = "cidr"
  \/ t.kind = "ip"
  \/ t.kind = "name" /\ t.text \in resolvable

RECURSIVE expandAll(_)
expandAll(targets) ==
  IF targets = <<>> THEN <<>>
  ELSE LET t == Head(targets)
       IN  (IF hasSlash(t)
              THEN (IF t.kind = "cidr" THEN expandCIDR(t) ELSE <<>>)
              ELSE <<t.text>>) \o expandAll(Tail(targets))

\* An expansion that keeps repeats.
expandTargetsKeepingRepeats(targets) == expandAll(targets)

expandTargets(targets) == removeDuplicates(expandAll(targets))

\* The target lists of the command line: up to MaxTargets targets, none given twice (the
\* address and the block that holds only it expand to the same scan unit).
TargetLists ==
  {l \in UNION {[1..n -> TargetUniverse] : n \in 1..MaxTargets} :
     \A j, k \in DOMAIN l : j # k => l[j] # l[k]}

\* extractDomain: "" for an address or a block, else the name (lower-cased and trimmed in
\* the code; the names of the model are lower-case and trimmed already).
extractDomain(t) == IF t.kind \in {"ip", "cidr"} THEN "" ELSE t.text

\* ------------------------------------------------------------ environment
\* The port numbers on which a host of the modelled networks may accept a connection;
\* a dial to any other port fails.
NetPorts == {22, 80, 9999}

\* pingHost: the ping command exits 0 or not.
PingOutcomes(host) == BOOLEAN

\* net.DialTimeout("tcp", host:port): err == nil or not.
DialOutcomes(host, port) == IF port \in NetPorts THEN BOOLEAN ELSE {FALSE}

\* The outcomes of the dials of one pass over a port list.
DialResults(host) == [NetPorts -> BOOLEAN]

Connects(res, port) == port \in DOMAIN res /\ res[port]

\* What amass prints for a domain, one entry per output line, each line trimmed.
AmassLines(domain) ==
  { <<>>,
    <<domain>>,
    <<domain, "", domain>> }

\* exec.LookPath("amass") fails; the command fails (non-zero exit, timeout); or it prints lines.
AmassOutcomes(domain) ==
  {[kind |-> "missing", lines |-> <<>>], [kind |-> "failed", lines |-> <<>>]}
    \cup {[kind |-> "ok", lines |-> l] : l \in AmassLines(domain)}

\* ------------------------------------------------------------------ state

VARIABLES
  Threads,            \* PDive2.Threads
  DiscoveryMode,      \* PDive2.DiscoveryMode
  Targets,            \* PDive2.Targets
  pc,                 \* the statement the main goroutine is at
  Hosts,              \* ScanResults.Hosts
  UnresponsiveHosts,  \* ScanResults.UnresponsiveHosts
  mutex,              \* ScanResults.mutex: the writer (or NoThread) and the readers
  pdI,                \* PassiveDiscovery: index of the target of the loop
  discoveredHosts,    \* PassiveDiscovery: discoveredHosts, then its return value
  allHosts,           \* HostDiscovery: allHosts
  liveHosts,          \* HostDiscovery: the keys of the map liveHosts
  liveHostsList,      \* HostDiscovery: liveHostsList, its return value
  hostChan,           \* the host channel of the running loop (filled and closed)
  busy,               \* the hosts received from hostChan whose processing has not returned
  wg,                 \* the WaitGroup counter of the running loop
  allDiscoveredHosts, \* RunScan: allDiscoveredHosts
  scan,               \* the running scanHostPorts calls, by host
  psReturn,           \* where PortScan returns to
  tmpfile,            \* MasscanScan: the temporary host file
  masscanResults,     \* MasscanScan: masscanResults / results, then its return value
  output,             \* history of the running MasscanScan: what LookPath, CreateTemp and cmd.Output gave
  seI,                \* ServiceEnumeration: index of the host of the loop
  seJ,                \* ServiceEnumeration: index of the port of the inner loop
  section,            \* GenerateReport / GeneratePassiveReport: the read section
  probes,             \* history of the running phase: how often each external call was started
  pingResult,         \* history of the running HostDiscovery: the result of pingHost, by host
  dials,              \* history of the running HostDiscovery: the dials of portDiscovery, by host
  scanOK,             \* history of the running PortScan: the ports scanPort found open, by host
  httpResult,         \* history of the running ServiceEnumeration: what client.Get gave, by host and port index
  response,           \* main: the line read from the operator at the authorization prompt
  pool,               \* SpecCeiling: a worker loop with its items counted, not named
  cidr                \* SpecCIDR: the loop of expandTargets over one CIDR block

vars == <<Threads, DiscoveryMode, Targets, pc, Hosts, UnresponsiveHosts, mutex, pdI,
          discoveredHosts, allHosts, liveHosts, liveHostsList, hostChan, busy, wg,
          allDiscoveredHosts, scan, psReturn, tmpfile, masscanResults, output, seI, seJ,
          section, probes, pingResult, dials, scanOK, httpResult, response, pool, cidr>>

config   == <<Threads, DiscoveryMode>>
store    == <<Hosts, UnresponsiveHosts>>
pdVars   == <<pdI, discoveredHosts>>
hdVars   == <<allHosts, liveHosts, liveHostsList>>
loopVars == <<hostChan, busy, wg>>
msVars   == <<psReturn, tmpfile, masscanResults>>
seVars   == <<seI, seJ>>
history  == <<probes, pingResult, dials, scanOK>>

\* ------------------------------------------------------------ sync.RWMutex

NoThread == ""
MainThread == "main"

Unlocked == [writer |-> NoThread, readers |-> {}]

CanLock == mutex.writer = NoThread /\ mutex.readers = {}
CanRLock == mutex.writer = NoThread

Lock(t) == CanLock /\ mutex' = [mutex EXCEPT !.writer = t]
Unlock(t) == mutex' = [mutex EXCEPT !.writer = NoThread]
RLock(t) == CanRLock /\ mutex' = [mutex EXCEPT !.readers = @ \cup {t}]
RUnlock(t) == mutex' = [mutex EXCEPT !.readers = @ \ {t}]

\* NewPDive2 and the flags of main
HostInfo(host, status, ports) == [Host |-> host, Status |-> status, Ports |-> ports]
PortInfo(port, service) == [Port |-> port, State |-> "open", Service |-> service]

\* MasscanScan has not run an external call.
NoOutput == [kind |-> "none", lines |-> <<>>]

\* No address.
NoIP == <<>>

\* The CIDR loop of SpecCIDR before it is set up.
NoCIDR == [ones |-> 32, network |-> NoIP, ip |-> NoIP, last |-> NoIP, left |-> 0, pc |-> "none"]

\* The worker loop of SpecCeiling before it is set up.
NoPool == [kind |-> "none", threads |-> 0, queued |-> 0, running |-> 0, wg |-> 0, pc |-> "none"]

\* The answer "y" and the end of its line, character by character.
Authorized == <<"y", "\n">>

\* The locals of the phases before any phase has run.
PhaseInit ==
  /\ UnresponsiveHosts = 0
  /\ mutex = Unlocked
  /\ pdI = 1
  /\ discoveredHosts = <<>>
  /\ allHosts = <<>>
  /\ liveHosts = {}
  /\ liveHostsList = <<>>
  /\ hostChan = <<>>
  /\ busy = {}
  /\ wg = 0
  /\ scan = <<>>
  /\ psReturn = ""
  /\ tmpfile = "none"
  /\ masscanResults = <<>>
  /\ output = NoOutput
  /\ seI = 1
  /\ seJ = 1
  /\ section = 0
  /\ probes = <<>>
  /\ pingResult = <<>>
  /\ dials = <<>>
  /\ scanOK = <<>>
  /\ httpResult = <<>>

\* The same after the operator has answered "y".
LocalsInit == PhaseInit /\ response = Authorized

StateInit ==
  /\ pc = "start"
  /\ Hosts = <<>>
  /\ allDiscoveredHosts = <<>>
  /\ LocalsInit

Init ==
  /\ Threads \in 0..MaxThreads
  /\ DiscoveryMode \in {"active", "passive"}
  /\ Targets \in TargetLists
  /\ StateInit
  /\ pool = NoPool
  /\ cidr = NoCIDR

\* ---------------------------------------------------------------- RunScan

\* ValidateTargets, then the branch on no valid target
RunScan_Validate ==
  /\ pc = "start"
  /\ \E resolvable \in SUBSET {t.text : t \in {u \in Range(Targets) : u.kind = "name"}} :
       LET validTargets == SelectSeq(Targets, LAMBDA t : isValidTarget(t, resolvable))
       IN  /\ Targets' = validTargets
           /\ pc' = IF Len(validTargets) > 0 THEN "pd_loop" ELSE "done"
  /\ UNCHANGED <<pool, cidr, response, httpResult, output, config, store, mutex, pdVars, hdVars, loopVars, allDiscoveredHosts, scan,
                 msVars, seVars, section, history>>

\* ------------------------------------------------------- PassiveDiscovery

\* One iteration of the loop over the targets up to the start of amass, or the end of the loop.
PassiveDiscovery_Target ==
  /\ pc = "pd_loop"
  /\ IF pdI > Len(Targets)
       THEN /\ discoveredHosts' = removeDuplicates(discoveredHosts)
            /\ pc' = "pd_lock"
            /\ UNCHANGED <<pdI, probes>>
       ELSE LET domain == extractDomain(Targets[pdI])
            IN  IF domain = ""
                  THEN /\ pdI' = pdI + 1
                       /\ UNCHANGED <<pc, discoveredHosts, probes>>
                  ELSE \E found \in BOOLEAN :   \* exec.LookPath("amass")
                         IF found
                           THEN /\ pc' = "pd_amass"
                                /\ probes' = Bump(probes, <<"amass", domain, 0>>)
                                /\ UNCHANGED <<pdI, discoveredHosts>>
                           ELSE /\ pdI' = pdI + 1
                                /\ UNCHANGED <<pc, discoveredHosts, probes>>
  /\ UNCHANGED <<pool, cidr, response, httpResult, output, config, Targets, store, mutex, hdVars, loopVars, allDiscoveredHosts, scan,
                 msVars, seVars, section, pingResult, dials, scanOK>>

\* amassDiscovery: cmd.Output() returns
PassiveDiscovery_Amass ==
  /\ pc = "pd_amass"
  /\ \E out \in {o \in AmassOutcomes(extractDomain(Targets[pdI])) : o.kind # "missing"} :
       discoveredHosts' = discoveredHosts \o SelectSeq(out.lines, LAMBDA line : line # "")
  /\ pdI' = pdI + 1
  /\ pc' = "pd_loop"
  /\ UNCHANGED <<pool, cidr, response, httpResult, output, config, Targets, store, mutex, hdVars, loopVars, allDiscoveredHosts, scan,
                 msVars, seVars, section, history>>

PassiveDiscovery_Lock ==
  /\ pc = "pd_lock"
  /\ Lock(MainThread)
  /\ pc' = "pd_update"
  /\ UNCHANGED <<pool, cidr, response, httpResult, output, config, Targets, store, pdVars, hdVars, loopVars, allDiscoveredHosts, scan,
                 msVars, seVars, section, history>>

RECURSIVE appendHosts(_, _, _)
appendHosts(hosts, names, status) ==
  IF names = <<>> THEN hosts
  ELSE appendHosts(Append(hosts, HostInfo(Head(names), status, <<>>)), Tail(names), status)

PassiveDiscovery_Update ==
  /\ pc = "pd_update"
  /\ Hosts' = appendHosts(Hosts, discoveredHosts, "discovered")
  /\ pc' = "pd_unlock"
  /\ UNCHANGED <<pool, cidr, response, httpResult, output, config, Targets, UnresponsiveHosts, mutex, pdVars, hdVars, loopVars,
                 allDiscoveredHosts, scan, msVars, seVars, section, history>>

\* A return to RunScan that goes on to host discovery whatever the mode.
PassiveDiscovery_UnlockAnyMode ==
  /\ pc = "pd_unlock"
  /\ Unlock(MainThread)
  /\ pc' = "hd_start"
  /\ probes' = <<>>
  /\ UNCHANGED <<pool, cidr, response, httpResult, output, config, Targets, store, pdVars, hdVars, loopVars, allDiscoveredHosts, scan,
                 msVars, seVars, section, pingResult, dials, scanOK>>

\* The unlock, the return to RunScan and RunScan's branch on the mode and on the result.
PassiveDiscovery_Unlock ==
  /\ pc = "pd_unlock"
  /\ Unlock(MainThread)
  /\ pc' = IF DiscoveryMode = "passive"
             THEN (IF Len(discoveredHosts) = 0 THEN "done" ELSE "gr_start")
             ELSE "hd_start"
  /\ probes' = <<>>
  /\ UNCHANGED <<pool, cidr, response, httpResult, output, config, Targets, store, pdVars, hdVars, loopVars, allDiscoveredHosts, scan,
                 msVars, seVars, section, pingResult, dials, scanOK>>

\* ---------------------------------------------------------- HostDiscovery

discoveryPorts == <<80, 443, 22, 21, 25, 53, 135, 139, 445>>

\* The number of goroutines each loop starts: the bound of its for statement.
pingWorkers(threads) == threads
\* The fallback loop without its ceiling.
fallbackWorkersUnclamped(threads) == threads

\* The port loop without its ceiling.
portWorkersUnclamped(threads) == threads

fallbackWorkers(threads) == min(threads, 20)
hostWorkers(threads) == threads
portWorkers(threads) == min(threads, 50)

\* The goroutines a for statement with bound n starts: for i := 0; i < n; i++ { wg.Add(1); go ... }
\* (none when n is zero or negative).  The statement is one step of the model: a goroutine
\* started early that runs before the others are started is one that runs first.
Workers(n) == IF n > 0 THEN n ELSE 0

\* A fallback probe that dials every port of the list.
portDiscoveryDialsAll(ports, res) ==
  [k \in 1..Len(ports) |-> [port |-> ports[k], ok |-> Connects(res, ports[k])]]

\* portDiscovery: the dials made, in order, up to and including the first that connects.
RECURSIVE portDiscoveryDials(_, _)
portDiscoveryDials(ports, res) ==
  IF ports = <<>> THEN <<>>
  ELSE IF Connects(res, Head(ports))
         THEN <<[port |-> Head(ports), ok |-> TRUE]>>
         ELSE <<[port |-> Head(ports), ok |-> FALSE]>> \o portDiscoveryDials(Tail(ports), res)

\* A fallback probe that gives up after the first port.
portDiscoveryFirstPortOnly(trace) == trace # <<>> /\ trace[1].ok

\* portDiscovery's return value
portDiscovery(trace) == \E k \in DOMAIN trace : trace[k].ok

\* A receive that leaves the item on the channel.
ReceiveKeepsItem(ch) == ch

\* for item := range ch: the receive takes the first queued item off the channel.
Receive(ch) == Tail(ch)

\* A goroutine of the running loop is between two items.
IdleWorker == wg - Cardinality(busy) > 0

\* expandTargets returns: the loop over a CIDR block ends when ipnet.Contains(ip) fails, which
\* it does after the last address of every block but the one of prefix length 0 (SpecCIDR)
expandReturns(targets) ==
  \A k \in DOMAIN targets : targets[k].kind = "cidr" => targets[k].ones > 0

\* allHosts := p.expandTargets(), and the filling and closing of the channel of phase 1
HostDiscovery_Expand ==
  /\ pc = "hd_start"
  /\ expandReturns(Targets)
  /\ allHosts' = expandTargets(Targets)
  /\ liveHosts' = {}
  /\ hostChan' = allHosts'
  /\ pc' = "p1_spawn"
  /\ UNCHANGED <<pool, cidr, response, httpResult, output, config, Targets, store, mutex, pdVars, liveHostsList, busy, wg,
                 allDiscoveredHosts, scan, msVars, seVars, section, history>>

\* for i := 0; i < p.Threads; i++ { wg.Add(1); go func() {...}() }
HostDiscovery_P1Spawn ==
  /\ pc = "p1_spawn"
  /\ wg' = wg + Workers(pingWorkers(Threads))
  /\ pc' = "p1_wait"
  /\ UNCHANGED <<pool, cidr, response, httpResult, output, config, Targets, store, mutex, pdVars, hdVars, hostChan, busy,
                 allDiscoveredHosts, scan, msVars, seVars, section, history>>

\* for host := range hostChan: a goroutine receives a host and starts pingHost
HostDiscovery_P1Take ==
  /\ pc \in {"p1_spawn", "p1_wait"}
  /\ IdleWorker
  /\ hostChan # <<>>
  /\ busy' = busy \cup {Head(hostChan)}
  /\ hostChan' = Receive(hostChan)
  /\ probes' = Bump(probes, <<"ping", Head(hostChan), 0>>)
  /\ UNCHANGED <<pool, cidr, response, httpResult, output, config, Targets, pc, store, mutex, pdVars, hdVars, wg,
                 allDiscoveredHosts, scan, msVars, seVars, section, pingResult, dials, scanOK>>

\* A write that replaces the map.
MarkLiveOverwriting(live, host) == {host}

\* The map write of a goroutine, under mu.
MarkLive(live, host) == live \cup {host}

\* pingHost returns; if it is true: mu.Lock(); liveHosts[host] = true; mu.Unlock()
HostDiscovery_P1Finish(host) ==
  /\ pc \in {"p1_spawn", "p1_wait"}
  /\ host \in busy
  /\ \E ok \in PingOutcomes(host) :
       /\ liveHosts' = IF ok THEN MarkLive(liveHosts, host) ELSE liveHosts
       /\ pingResult' = (host :> ok) @@ pingResult
  /\ busy' = busy \ {host}
  /\ UNCHANGED <<pool, cidr, response, httpResult, output, config, Targets, pc, store, mutex, pdVars, allHosts, liveHostsList, hostChan,
                 wg, allDiscoveredHosts, scan, msVars, seVars, section, probes, dials, scanOK>>

\* The range over the closed, empty channel ends: defer wg.Done()
HostDiscovery_P1Exit ==
  /\ pc \in {"p1_spawn", "p1_wait"}
  /\ IdleWorker
  /\ hostChan = <<>>
  /\ wg' = wg - 1
  /\ UNCHANGED <<pool, cidr, response, httpResult, output, config, Targets, pc, store, mutex, pdVars, hdVars, hostChan, busy,
                 allDiscoveredHosts, scan, msVars, seVars, section, history>>

\* wg.Wait() returns; nonPingHosts is computed and, if it is not empty, queued for phase 2
HostDiscovery_P1Wait ==
  /\ pc = "p1_wait"
  /\ wg = 0
  /\ LET nonPingHosts == SelectSeq(allHosts, LAMBDA h : h \notin liveHosts)
     IN  IF Len(nonPingHosts) > 0
           THEN hostChan' = nonPingHosts /\ pc' = "p2_spawn"
           ELSE pc' = "hd_convert" /\ UNCHANGED hostChan
  /\ UNCHANGED <<pool, cidr, response, httpResult, output, config, Targets, store, mutex, pdVars, hdVars, busy, wg,
                 allDiscoveredHosts, scan, msVars, seVars, section, history>>

\* for i := 0; i < min(p.Threads, 20); i++ { wg.Add(1); go func() {...}() }
HostDiscovery_P2Spawn ==
  /\ pc = "p2_spawn"
  /\ wg' = wg + Workers(fallbackWorkers(Threads))
  /\ pc' = "p2_wait"
  /\ UNCHANGED <<pool, cidr, response, httpResult, output, config, Targets, store, mutex, pdVars, hdVars, hostChan, busy,
                 allDiscoveredHosts, scan, msVars, seVars, section, history>>

HostDiscovery_P2Take ==
  /\ pc \in {"p2_spawn", "p2_wait"}
  /\ IdleWorker
  /\ hostChan # <<>>
  /\ busy' = busy \cup {Head(hostChan)}
  /\ hostChan' = Receive(hostChan)
  /\ probes' = Bump(probes, <<"fallback", Head(hostChan), 0>>)
  /\ UNCHANGED <<pool, cidr, response, httpResult, output, config, Targets, pc, store, mutex, pdVars, hdVars, wg,
                 allDiscoveredHosts, scan, msVars, seVars, section, pingResult, dials, scanOK>>

\* portDiscovery returns; if it is true: mu.Lock(); liveHosts[host] = true; mu.Unlock()
HostDiscovery_P2Finish(host) ==
  /\ pc \in {"p2_spawn", "p2_wait"}
  /\ host \in busy
  /\ \E res \in DialResults(host) :
       LET trace == portDiscoveryDials(discoveryPorts, res)
       IN  /\ liveHosts' = IF portDiscovery(trace) THEN MarkLive(liveHosts, host) ELSE liveHosts
           /\ dials' = (host :> trace) @@ dials
  /\ busy' = busy \ {host}
  /\ UNCHANGED <<pool, cidr, response, httpResult, output, config, Targets, pc, store, mutex, pdVars, allHosts, liveHostsList, hostChan,
                 wg, allDiscoveredHosts, scan, msVars, seVars, section, probes, pingResult,
                 scanOK>>

HostDiscovery_P2Exit ==
  /\ pc \in {"p2_spawn", "p2_wait"}
  /\ IdleWorker
  /\ hostChan = <<>>
  /\ wg' = wg - 1
  /\ UNCHANGED <<pool, cidr, response, httpResult, output, config, Targets, pc, store, mutex, pdVars, hdVars, hostChan, busy,
                 allDiscoveredHosts, scan, msVars, seVars, section, history>>

HostDiscovery_P2Wait ==
  /\ pc = "p2_wait"
  /\ wg = 0
  /\ pc' = "hd_convert"
  /\ UNCHANGED <<pool, cidr, response, httpResult, output, config, Targets, store, mutex, pdVars, hdVars, loopVars,
                 allDiscoveredHosts, scan, msVars, seVars, section, history>>

\* for host := range liveHosts { liveHostsList = append(liveHostsList, host) }
HostDiscovery_Convert ==
  /\ pc = "hd_convert"
  /\ liveHostsList' \in Orders(liveHosts)
  /\ pc' = "hd_lock"
  /\ UNCHANGED <<pool, cidr, response, httpResult, output, config, Targets, store, mutex, pdVars, allHosts, liveHosts, loopVars,
                 allDiscoveredHosts, scan, msVars, seVars, section, history>>

HostDiscovery_Lock ==
  /\ pc = "hd_lock"
  /\ Lock(MainThread)
  /\ pc' = "hd_update"
  /\ UNCHANGED <<pool, cidr, response, httpResult, output, config, Targets, store, pdVars, hdVars, loopVars, allDiscoveredHosts, scan,
                 msVars, seVars, section, history>>

\* An update that records the count and forgets the hosts.
HostDiscovery_UpdateCountOnly ==
  /\ pc = "hd_update"
  /\ UnresponsiveHosts' = Len(allHosts) - Len(liveHostsList)
  /\ pc' = "hd_unlock"
  /\ UNCHANGED <<pool, cidr, response, httpResult, output, config, Targets, Hosts, mutex, pdVars, hdVars, loopVars,
                 allDiscoveredHosts, scan, msVars, seVars, section, history>>

HostDiscovery_Update ==
  /\ pc = "hd_update"
  /\ Hosts' = appendHosts(Hosts, liveHostsList, "up")
  /\ UnresponsiveHosts' = Len(allHosts) - Len(liveHostsList)
  /\ pc' = "hd_unlock"
  /\ UNCHANGED <<pool, cidr, response, httpResult, output, config, Targets, mutex, pdVars, hdVars, loopVars, allDiscoveredHosts, scan,
                 msVars, seVars, section, history>>

\* A return to RunScan that goes on to the scan whatever was discovered.
HostDiscovery_UnlockAlwaysScan ==
  /\ pc = "hd_unlock"
  /\ Unlock(MainThread)
  /\ allDiscoveredHosts' = removeDuplicates(discoveredHosts \o liveHostsList)
  /\ pc' = "rs_lock"
  /\ probes' = <<>>
  /\ pingResult' = <<>>
  /\ dials' = <<>>
  /\ UNCHANGED <<pool, cidr, response, httpResult, output, config, Targets, store, pdVars, hdVars, loopVars, scan, msVars, seVars,
                 section, scanOK>>

\* The unlock, the return to RunScan, allDiscoveredHosts and the branch on no host.
HostDiscovery_Unlock ==
  /\ pc = "hd_unlock"
  /\ Unlock(MainThread)
  /\ allDiscoveredHosts' = removeDuplicates(discoveredHosts \o liveHostsList)
  /\ pc' = IF Len(allDiscoveredHosts') = 0 THEN "done" ELSE "rs_lock"
  /\ probes' = <<>>
  /\ pingResult' = <<>>
  /\ dials' = <<>>
  /\ UNCHANGED <<pool, cidr, response, httpResult, output, config, Targets, store, pdVars, hdVars, loopVars, scan, msVars, seVars,
                 section, scanOK>>

RunScan_Lock ==
  /\ pc = "rs_lock"
  /\ Lock(MainThread)
  /\ pc' = "rs_update"
  /\ UNCHANGED <<pool, cidr, response, httpResult, output, config, Targets, store, pdVars, hdVars, loopVars, allDiscoveredHosts, scan,
                 msVars, seVars, section, history>>

hostIndexOf(hosts, host) ==
  IF \E k \in DOMAIN hosts : hosts[k].Host = host
    THEN CHOOSE k \in DOMAIN hosts : hosts[k].Host = host /\ \A m \in 1..(k - 1) : hosts[m].Host # host
    ELSE -1

\* "Ensure all discovered hosts are initialized in results": hostMap is built once, from
\* the hosts of the store before the loop.
ensureHosts(hosts, names) ==
  appendHosts(hosts, SelectSeq(names, LAMBDA h : hostIndexOf(hosts, h) = -1), "up")

RunScan_Update ==
  /\ pc = "rs_update"
  /\ Hosts' = ensureHosts(Hosts, allDiscoveredHosts)
  /\ pc' = "rs_unlock"
  /\ UNCHANGED <<pool, cidr, response, httpResult, output, config, Targets, UnresponsiveHosts, mutex, pdVars, hdVars, loopVars,
                 allDiscoveredHosts, scan, msVars, seVars, section, history>>

RunScan_Unlock ==
  /\ pc = "rs_unlock"
  /\ Unlock(MainThread)
  /\ pc' = "ms_start"
  /\ UNCHANGED <<pool, cidr, response, httpResult, output, config, Targets, store, pdVars, hdVars, loopVars, allDiscoveredHosts, scan,
                 msVars, seVars, section, history>>

\* ----------------------------------------------- PortScan, scanHostPorts

commonPorts == <<21, 22, 23, 25, 53, 80, 110, 111, 135, 139, 143, 443, 993, 995, 1723, 3306,
                 3389, 5432, 5900, 8080, 8443>>

\* The ports of a list that are queued in the model: those a host of the modelled networks
\* may have open, in the order of the list.  (A dial to another port fails and has no effect.)
portQueue(ports) == SelectSeq(ports, LAMBDA port : port \in NetPorts)

\* The start of PortScan: the channel is filled and closed
PortScan_Begin ==
  /\ pc = "ps_start"
  /\ hostChan' = allDiscoveredHosts
  /\ pc' = "ps_spawn"
  /\ UNCHANGED <<pool, cidr, response, httpResult, output, config, Targets, store, mutex, pdVars, hdVars, busy, wg, allDiscoveredHosts,
                 scan, msVars, seVars, section, history>>

\* for i := 0; i < p.Threads; i++ { wg.Add(1); go func() {...}() }
PortScan_Spawn ==
  /\ pc = "ps_spawn"
  /\ wg' = wg + Workers(hostWorkers(Threads))
  /\ pc' = "ps_wait"
  /\ UNCHANGED <<pool, cidr, response, httpResult, output, config, Targets, store, mutex, pdVars, hdVars, hostChan, busy,
                 allDiscoveredHosts, scan, msVars, seVars, section, history>>

\* A goroutine receives a host and calls scanHostPorts, which fills and closes portChan
PortScan_Take ==
  /\ pc \in {"ps_spawn", "ps_wait"}
  /\ IdleWorker
  /\ hostChan # <<>>
  /\ busy' = busy \cup {Head(hostChan)}
  /\ hostChan' = Receive(hostChan)
  /\ scan' = (Head(hostChan) :> [pc |-> "spawn", portChan |-> portQueue(commonPorts),
                                 busy |-> {}, wg |-> 0, openPorts |-> <<>>]) @@ scan
  /\ probes' = Bump(probes, <<"scanHostPorts", Head(hostChan), 0>>)
  /\ scanOK' = (Head(hostChan) :> {}) @@ scanOK
  /\ UNCHANGED <<pool, cidr, response, httpResult, output, config, Targets, pc, store, mutex, pdVars, hdVars, wg,
                 allDiscoveredHosts, msVars, seVars, section, pingResult, dials>>

Scanning(host) == host \in busy /\ host \in DOMAIN scan

\* for i := 0; i < min(p.Threads, 50); i++ { wg.Add(1); go func() {...}() }
scanHostPorts_Spawn(host) ==
  /\ Scanning(host)
  /\ scan[host].pc = "spawn"
  /\ scan' = [scan EXCEPT ![host].wg = @ + Workers(portWorkers(Threads)), ![host].pc = "wait"]
  /\ UNCHANGED <<pool, cidr, response, httpResult, output, config, Targets, pc, store, mutex, pdVars, hdVars, loopVars,
                 allDiscoveredHosts, msVars, seVars, section, history>>

IdlePortWorker(host) == scan[host].wg - Cardinality(scan[host].busy) > 0

\* for port := range portChan: a goroutine receives a port and starts scanPort
scanHostPorts_Take(host) ==
  /\ Scanning(host)
  /\ scan[host].pc \in {"spawn", "wait"}
  /\ IdlePortWorker(host)
  /\ scan[host].portChan # <<>>
  /\ scan' = [scan EXCEPT ![host].busy = @ \cup {Head(scan[host].portChan)},
                          ![host].portChan = Receive(@)]
  /\ probes' = Bump(probes, <<"scanPort", host, Head(scan[host].portChan)>>)
  /\ UNCHANGED <<pool, cidr, response, httpResult, output, config, Targets, pc, store, mutex, pdVars, hdVars, loopVars,
                 allDiscoveredHosts, msVars, seVars, section, pingResult, dials, scanOK>>

\* A write that puts the port in the place of the list.
AddOpenPortOverwriting(openPorts, port) == <<PortInfo(port, "")>>

\* The append of a goroutine, under mu.
AddOpenPort(openPorts, port) == Append(openPorts, PortInfo(port, ""))

\* scanPort returns; if it is true: mu.Lock(); openPorts = append(openPorts, ...); mu.Unlock()
scanHostPorts_Finish(host, port) ==
  /\ Scanning(host)
  /\ port \in scan[host].busy
  /\ \E ok \in DialOutcomes(host, port) :
       /\ scan' = [scan EXCEPT ![host].busy = @ \ {port},
                               ![host].openPorts = IF ok THEN AddOpenPort(@, port) ELSE @]
       /\ scanOK' = IF ok THEN [scanOK EXCEPT ![host] = @ \cup {port}] ELSE scanOK
  /\ UNCHANGED <<pool, cidr, response, httpResult, output, config, Targets, pc, store, mutex, pdVars, hdVars, loopVars,
                 allDiscoveredHosts, msVars, seVars, section, probes, pingResult, dials>>

scanHostPorts_Exit(host) ==
  /\ Scanning(host)
  /\ scan[host].pc \in {"spawn", "wait"}
  /\ IdlePortWorker(host)
  /\ scan[host].portChan = <<>>
  /\ scan' = [scan EXCEPT ![host].wg = @ - 1]
  /\ UNCHANGED <<pool, cidr, response, httpResult, output, config, Targets, pc, store, mutex, pdVars, hdVars, loopVars,
                 allDiscoveredHosts, msVars, seVars, section, history>>

scanHostPorts_Wait(host) ==
  /\ Scanning(host)
  /\ scan[host].pc = "wait"
  /\ scan[host].wg = 0
  /\ scan' = [scan EXCEPT ![host].pc = "lock"]
  /\ UNCHANGED <<pool, cidr, response, httpResult, output, config, Targets, pc, store, mutex, pdVars, hdVars, loopVars,
                 allDiscoveredHosts, msVars, seVars, section, history>>

\* An update of the store that does not take the lock.
scanHostPorts_NoLock(host) ==
  /\ Scanning(host)
  /\ scan[host].pc = "lock"
  /\ scan' = [scan EXCEPT ![host].pc = "update"]
  /\ UNCHANGED <<pool, cidr, response, httpResult, output, config, Targets, pc, store, mutex, pdVars, hdVars, loopVars,
                 allDiscoveredHosts, msVars, seVars, section, history>>

\* p.Results.mutex.Lock() by the goroutine that scans host
scanHostPorts_Lock(host) ==
  /\ Scanning(host)
  /\ scan[host].pc = "lock"
  /\ Lock(host)
  /\ scan' = [scan EXCEPT ![host].pc = "update"]
  /\ UNCHANGED <<pool, cidr, response, httpResult, output, config, Targets, pc, store, pdVars, hdVars, loopVars,
                 allDiscoveredHosts, msVars, seVars, section, history>>

\* An update that makes a record for a host that has none.
setPortsCreating(hosts, host, openPorts) ==
  IF hostIndexOf(hosts, host) = -1 THEN Append(hosts, HostInfo(host, "up", openPorts))
  ELSE [hosts EXCEPT ![hostIndexOf(hosts, host)].Ports = openPorts]

\* An update that adds the ports found to the ports recorded.
setPortsMerging(hosts, host, openPorts) ==
  IF hostIndexOf(hosts, host) = -1 THEN hosts
  ELSE [hosts EXCEPT ![hostIndexOf(hosts, host)].Ports = @ \o openPorts]

\* for i := range p.Results.Hosts { if Hosts[i].Host == host { Hosts[i].Ports = openPorts; break } }
setPorts(hosts, host, openPorts) ==
  IF hostIndexOf(hosts, host) = -1 THEN hosts
  ELSE [hosts EXCEPT ![hostIndexOf(hosts, host)].Ports = openPorts]

scanHostPorts_Update(host) ==
  /\ Scanning(host)
  /\ scan[host].pc = "update"
  /\ Hosts' = setPorts(Hosts, host, scan[host].openPorts)
  /\ scan' = [scan EXCEPT ![host].pc = "unlock"]
  /\ UNCHANGED <<pool, cidr, response, httpResult, output, config, Targets, pc, UnresponsiveHosts, mutex, pdVars, hdVars, loopVars,
                 allDiscoveredHosts, msVars, seVars, section, history>>

\* p.Results.mutex.Unlock() and the return of scanHostPorts to the loop of its goroutine
scanHostPorts_Unlock(host) ==
  /\ Scanning(host)
  /\ scan[host].pc = "unlock"
  /\ Unlock(host)
  /\ busy' = busy \ {host}
  /\ scan' = [h \in DOMAIN scan \ {host} |-> scan[h]]
  /\ UNCHANGED <<pool, cidr, response, httpResult, output, config, Targets, pc, store, pdVars, hdVars, hostChan, wg,
                 allDiscoveredHosts, msVars, seVars, section, history>>

PortScan_Exit ==
  /\ pc \in {"ps_spawn", "ps_wait"}
  /\ IdleWorker
  /\ hostChan = <<>>
  /\ wg' = wg - 1
  /\ UNCHANGED <<pool, cidr, response, httpResult, output, config, Targets, pc, store, mutex, pdVars, hdVars, hostChan, busy,
                 allDiscoveredHosts, scan, msVars, seVars, section, history>>

\* A PortScan that returns without waiting for its goroutines.
PortScan_ReturnEarly ==
  /\ pc = "ps_wait"
  /\ pc' = psReturn
  /\ UNCHANGED <<pool, cidr, response, httpResult, output, config, Targets, store, mutex, pdVars, hdVars, loopVars,
                 allDiscoveredHosts, scan, msVars, seVars, section, history>>

\* wg.Wait() returns and PortScan returns to MasscanScan
PortScan_Wait ==
  /\ pc = "ps_wait"
  /\ wg = 0
  /\ pc' = psReturn
  /\ UNCHANGED <<pool, cidr, response, httpResult, output, config, Targets, store, mutex, pdVars, hdVars, loopVars,
                 allDiscoveredHosts, scan, msVars, seVars, section, history>>

\* ------------------------------------------------------------ MasscanScan

\* Longest fast-scanner output, in lines.
MaxLines == 2

\* An output line as strings.Fields splits it; <<>> is a blank line.
MasscanLine(state, proto, port, host) == <<state, proto, port, host, "1700000000">>

\* The address masscan prints for a host that was given to it by name.
ResolvedAddress == "93.184.216.34"

MasscanLineUniverse(hosts) ==
  { MasscanLine("open", "tcp", "80", hosts[1]),
    MasscanLine("open", "tcp", "9999", hosts[Len(hosts)]),
    MasscanLine("open", "tcp", "80", ResolvedAddress) }

\* cmd.Output() fails (launch error, non-zero exit, timeout) or returns the output.
MasscanOutcomes(hosts) ==
  {[kind |-> "failed", lines |-> <<>>]}
    \cup {[kind |-> "ok", lines |-> l] :
            l \in UNION {[1..n -> MasscanLineUniverse(hosts)] : n \in 0..MaxLines}}

\* strconv.Atoi on the port fields of the model
AtoiTable == ("80" :> 80) @@ ("22" :> 22) @@ ("9999" :> 9999) @@ ("81" :> 81) @@ ("443" :> 443)
               @@ ("53" :> 53) @@ ("0" :> 0) @@ ("70000" :> 70000) @@ ("-1" :> -1)

AtoiOK(str) == str \in DOMAIN AtoiTable
Atoi(str) == AtoiTable[str]

\* strings.HasPrefix(line, "#")
IsComment(line) == line[1] \in {"#", "#masscan"}

\* A loop body that does not look at the state field.
parseLineAnyState(results, line) ==
  IF /\ line # <<>>
     /\ ~IsComment(line)
     /\ Len(line) >= 4
     /\ line[2] = "tcp"
     /\ AtoiOK(line[3])
    THEN LET host == line[4]
             before == IF host \in DOMAIN results THEN results[host] ELSE <<>>
         IN  (host :> Append(before, PortInfo(Atoi(line[3]), ""))) @@ results
    ELSE results

\* The body of the loop over the output lines.
parseLine(results, line) ==
  IF /\ line # <<>>
     /\ ~IsComment(line)
     /\ Len(line) >= 4
     /\ line[1] = "open"
     /\ line[2] = "tcp"
     /\ AtoiOK(line[3])
    THEN LET host == line[4]
             before == IF host \in DOMAIN results THEN results[host] ELSE <<>>
         IN  (host :> Append(before, PortInfo(Atoi(line[3]), ""))) @@ results
    ELSE results

RECURSIVE parseMasscan(_, _)
parseMasscan(results, lines) ==
  IF lines = <<>> THEN results
  ELSE parseMasscan(parseLine(results, Head(lines)), Tail(lines))

\* A merge that puts the parsed ports in the place of the recorded ones.
RECURSIVE mergeMasscanReplacing(_, _, _)
mergeMasscanReplacing(stored, hosts, results) ==
  IF hosts = <<>> THEN stored
  ELSE LET host == Head(hosts)
           withHost == IF hostIndexOf(stored, host) = -1
                         THEN Append(stored, HostInfo(host, "up", <<>>))
                         ELSE stored
           hostIndex == hostIndexOf(withHost, host)
           merged == IF host \in DOMAIN results
                       THEN [withHost EXCEPT ![hostIndex].Ports = results[host]]
                       ELSE withHost
       IN  mergeMasscanReplacing(merged, Tail(hosts), results)

\* "Update results with masscan findings": the loop over hosts
RECURSIVE mergeMasscan(_, _, _)
mergeMasscan(stored, hosts, results) ==
  IF hosts = <<>> THEN stored
  ELSE LET host == Head(hosts)
           withHost == IF hostIndexOf(stored, host) = -1
                         THEN Append(stored, HostInfo(host, "up", <<>>))
                         ELSE stored
           hostIndex == hostIndexOf(withHost, host)
           merged == IF host \in DOMAIN results
                       THEN [withHost EXCEPT ![hostIndex].Ports = @ \o results[host]]
                       ELSE withHost
       IN  mergeMasscan(merged, Tail(hosts), results)

\* A conversion that returns the empty mapping.
readBackNothing(results, stored) == results

\* "Convert results format": results[host.Host] = host.Ports for the hosts with ports
RECURSIVE readBack(_, _)
readBack(results, stored) ==
  IF stored = <<>> THEN results
  ELSE readBack(IF Len(Head(stored).Ports) > 0
                  THEN (Head(stored).Host :> Head(stored).Ports) @@ results
                  ELSE results,
                Tail(stored))

\* A test that never sees an empty host list.
noHostsNever(hosts) == FALSE

\* if len(hosts) == 0
noHosts(hosts) == Len(hosts) = 0

\* A start that falls back to the port scan when the temporary file cannot be created.
MasscanScan_StartFallingBack ==
  /\ pc = "ms_start"
  /\ IF noHosts(allDiscoveredHosts)
       THEN /\ masscanResults' = <<>>
            /\ pc' = "rs_after"
            /\ UNCHANGED <<psReturn, tmpfile, output, probes>>
       ELSE \E found \in BOOLEAN, created \in BOOLEAN :   \* exec.LookPath, os.CreateTemp
              IF ~found
                THEN /\ psReturn' = "ms_rlock"
                     /\ output' = [kind |-> "missing", lines |-> <<>>]
                     /\ pc' = "ps_start"
                     /\ UNCHANGED <<tmpfile, masscanResults, probes>>
                ELSE IF ~created
                       THEN /\ psReturn' = "ms_rlock"
                            /\ output' = [kind |-> "nofile", lines |-> <<>>]
                            /\ pc' = "ps_start"
                            /\ UNCHANGED <<tmpfile, masscanResults, probes>>
                       ELSE /\ tmpfile' = "exists"
                            /\ probes' = Bump(probes, <<"masscan", "", 0>>)
                            /\ pc' = "ms_running"
                            /\ UNCHANGED <<psReturn, masscanResults, output>>
  /\ UNCHANGED <<pool, cidr, response, httpResult, config, Targets, store, mutex, pdVars, hdVars, loopVars, allDiscoveredHosts,
                 scan, seVars, section, pingResult, dials, scanOK>>

\* From the call to the start of the masscan command, or the return / fallback before it.
MasscanScan_Start ==
  /\ pc = "ms_start"
  /\ IF noHosts(allDiscoveredHosts)
       THEN /\ masscanResults' = <<>>
            /\ pc' = "rs_after"
            /\ UNCHANGED <<psReturn, tmpfile, output, probes>>
       ELSE \E found \in BOOLEAN, created \in BOOLEAN :   \* exec.LookPath, os.CreateTemp
              IF ~found
                THEN /\ psReturn' = "ms_rlock"
                     /\ output' = [kind |-> "missing", lines |-> <<>>]
                     /\ pc' = "ps_start"
                     /\ UNCHANGED <<tmpfile, masscanResults, probes>>
                ELSE IF ~created
                       THEN /\ masscanResults' = <<>>
                            /\ output' = [kind |-> "nofile", lines |-> <<>>]
                            /\ pc' = "rs_after"
                            /\ UNCHANGED <<psReturn, tmpfile, probes>>
                       ELSE /\ tmpfile' = "exists"
                            /\ probes' = Bump(probes, <<"masscan", "", 0>>)
                            /\ pc' = "ms_running"
                            /\ UNCHANGED <<psReturn, masscanResults, output>>
  /\ UNCHANGED <<pool, cidr, response, httpResult, config, Targets, store, mutex, pdVars, hdVars, loopVars, allDiscoveredHosts,
                 scan, seVars, section, pingResult, dials, scanOK>>

\* A masscan failure that ends the run.
MasscanScan_RunAborting ==
  /\ pc = "ms_running"
  /\ \E out \in MasscanOutcomes(allDiscoveredHosts) :
       /\ output' = out
       /\ IF out.kind = "failed"
            THEN /\ pc' = "done"
                 /\ UNCHANGED <<psReturn, masscanResults>>
            ELSE /\ masscanResults' = parseMasscan(<<>>, out.lines)
                 /\ pc' = "ms_lock"
                 /\ UNCHANGED psReturn
  /\ UNCHANGED <<pool, cidr, response, httpResult, config, Targets, store, mutex, pdVars, hdVars, loopVars, allDiscoveredHosts,
                 scan, tmpfile, seVars, section, history>>

\* cmd.Output() returns: the fallback on an error, else the parse of the output
MasscanScan_Run ==
  /\ pc = "ms_running"
  /\ \E out \in MasscanOutcomes(allDiscoveredHosts) :
       /\ output' = out
       /\ IF out.kind = "failed"
            THEN /\ psReturn' = "ms_rlock"
                 /\ pc' = "ps_start"
                 /\ UNCHANGED masscanResults
            ELSE /\ masscanResults' = parseMasscan(<<>>, out.lines)
                 /\ pc' = "ms_lock"
                 /\ UNCHANGED psReturn
  /\ UNCHANGED <<pool, cidr, response, httpResult, config, Targets, store, mutex, pdVars, hdVars, loopVars, allDiscoveredHosts,
                 scan, tmpfile, seVars, section, history>>

MasscanScan_Lock ==
  /\ pc = "ms_lock"
  /\ Lock(MainThread)
  /\ pc' = "ms_update"
  /\ UNCHANGED <<pool, cidr, response, httpResult, output, config, Targets, store, pdVars, hdVars, loopVars, allDiscoveredHosts, scan,
                 msVars, seVars, section, history>>

MasscanScan_Update ==
  /\ pc = "ms_update"
  /\ Hosts' = mergeMasscan(Hosts, allDiscoveredHosts, masscanResults)
  /\ pc' = "ms_unlock"
  /\ UNCHANGED <<pool, cidr, response, httpResult, output, config, Targets, UnresponsiveHosts, mutex, pdVars, hdVars, loopVars,
                 allDiscoveredHosts, scan, msVars, seVars, section, history>>

\* A return that leaves the file.
keepTemp(file) == file

\* The deferred os.Remove(tmpfile.Name()) at a return after the file was created.
removeTemp(file) == IF file = "exists" THEN "removed" ELSE file

MasscanScan_Unlock ==
  /\ pc = "ms_unlock"
  /\ Unlock(MainThread)
  /\ tmpfile' = removeTemp(tmpfile)
  /\ pc' = "rs_after"
  /\ probes' = <<>>
  /\ UNCHANGED <<pool, cidr, response, httpResult, output, config, Targets, store, pdVars, hdVars, loopVars, allDiscoveredHosts, scan,
                 psReturn, masscanResults, seVars, section, pingResult, dials, scanOK>>

\* After the fallback PortScan: p.Results.mutex.RLock()
MasscanScan_RLock ==
  /\ pc = "ms_rlock"
  /\ RLock(MainThread)
  /\ pc' = "ms_readback"
  /\ UNCHANGED <<pool, cidr, response, httpResult, output, config, Targets, store, pdVars, hdVars, loopVars, allDiscoveredHosts, scan,
                 msVars, seVars, section, history>>

MasscanScan_ReadBack ==
  /\ pc = "ms_readback"
  /\ masscanResults' = readBack(<<>>, Hosts)
  /\ pc' = "ms_runlock"
  /\ UNCHANGED <<pool, cidr, response, httpResult, output, config, Targets, store, mutex, pdVars, hdVars, loopVars, allDiscoveredHosts,
                 scan, psReturn, tmpfile, seVars, section, history>>

MasscanScan_RUnlock ==
  /\ pc = "ms_runlock"
  /\ RUnlock(MainThread)
  /\ tmpfile' = removeTemp(tmpfile)
  /\ pc' = "rs_after"
  /\ probes' = <<>>
  /\ scanOK' = <<>>
  /\ UNCHANGED <<pool, cidr, response, httpResult, output, config, Targets, store, pdVars, hdVars, loopVars, allDiscoveredHosts, scan,
                 psReturn, masscanResults, seVars, section, pingResult, dials>>

\* RunScan: if len(masscanResults) > 0 { p.ServiceEnumeration(allDiscoveredHosts) }
RunScan_AfterMasscan ==
  /\ pc = "rs_after"
  /\ IF Cardinality(DOMAIN masscanResults) > 0
       THEN pc' = "se_lock" /\ seI' = 1
       ELSE pc' = "gr_start" /\ UNCHANGED seI
  /\ output' = NoOutput
  /\ UNCHANGED <<pool, cidr, response, httpResult, config, Targets, store, mutex, pdVars, hdVars, loopVars, allDiscoveredHosts,
                 scan, msVars, seJ, section, history>>

\* ----------------------------------------------------- ServiceEnumeration

serviceMap ==
  (21 :> "ftp") @@ (22 :> "ssh") @@ (23 :> "telnet") @@ (25 :> "smtp") @@ (53 :> "dns")
    @@ (80 :> "http") @@ (110 :> "pop3") @@ (135 :> "rpc") @@ (139 :> "netbios")
    @@ (143 :> "imap") @@ (443 :> "https") @@ (993 :> "imaps") @@ (995 :> "pop3s")
    @@ (1723 :> "pptp") @@ (3306 :> "mysql") @@ (3389 :> "rdp") @@ (5432 :> "postgresql")
    @@ (5900 :> "vnc") @@ (8080 :> "http-alt") @@ (8443 :> "https-alt")

\* A lookup that sends a request for every port of the table.
everyKnownPort(port) == port \in DOMAIN serviceMap

\* service == "http" || service == "https" || service == "http-alt" || service == "https-alt"
isHTTPFamily(port) ==
  port \in DOMAIN serviceMap /\ serviceMap[port] \in {"http", "https", "http-alt", "https-alt"}


\* protocol := "http"; if service == "https" || service == "https-alt" { protocol = "https" }
protocol(port) == IF serviceMap[port] \in {"https", "https-alt"} THEN "https" ELSE "http"

\* url := fmt.Sprintf("%s://%s%s", protocol, host, portStr), portStr empty for 80 and 443
requestURL(host, port) ==
  protocol(port) \o "://" \o host \o (IF port # 80 /\ port # 443 THEN ":" \o ToString(port) ELSE "")

\* The URL a redirecting server names in its Location header: here the same host under the
\* other scheme. client is an http.Client without CheckRedirect, so client.Get sends a request
\* to the Location of a 301, 302, 303, 307 or 308 response, as net/http documents.
redirectURL(host, port) ==
  (IF protocol(port) = "http" THEN "https" ELSE "http") \o "://" \o host \o "/"

\* What client.Get(url) gives: an error, or the last response with its Server header ("" when
\* it has none); redirected when the client followed a redirect on the way.
HTTPOutcomes ==
  [err : {TRUE}, server : {""}, redirected : BOOLEAN]
    \cup [err : {FALSE}, server : {"", "nginx"}, redirected : BOOLEAN]

\* A label that puts the Server header in parentheses whatever the outcome.
httpLabelAlways(port, resp) == serviceMap[port] \o " (" \o resp.server \o ")"

\* enumerateService's return value for an HTTP-family port, given the outcome of the request
httpLabel(port, resp) ==
  IF ~resp.err /\ resp.server # ""
    THEN serviceMap[port] \o " (" \o resp.server \o ")"
    ELSE serviceMap[port]

\* An assignment that replaces the port collection of the record by the one labelled port.
setServiceReplacing(hosts, hostIndex, j, service) ==
  [hosts EXCEPT ![hostIndex].Ports = <<PortInfo(@[j].Port, service)>>]

\* p.Results.Hosts[hostIndex].Ports[j].Service = service
setService(hosts, hostIndex, j, service) ==
  [hosts EXCEPT ![hostIndex].Ports[j].Service = service]

\* The next host of the loop: p.Results.mutex.Lock(); or the end of the loop
ServiceEnumeration_Lock ==
  /\ pc = "se_lock"
  /\ IF seI > Len(allDiscoveredHosts)
       THEN pc' = "se_done" /\ UNCHANGED <<mutex, seJ>>
       ELSE Lock(MainThread) /\ seJ' = 1 /\ pc' = "se_port"
  /\ UNCHANGED <<pool, cidr, response, httpResult, output, config, Targets, store, pdVars, hdVars, loopVars, allDiscoveredHosts, scan,
                 msVars, seI, section, history>>

\* One port of the host: enumerateService up to its return or to the start of its request
ServiceEnumeration_Port ==
  /\ pc = "se_port"
  /\ LET hostIndex == hostIndexOf(Hosts, allDiscoveredHosts[seI])
     IN  IF hostIndex = -1 \/ seJ > Len(Hosts[hostIndex].Ports)
           THEN pc' = "se_unlock" /\ UNCHANGED <<Hosts, seJ, probes>>
           ELSE LET port == Hosts[hostIndex].Ports[seJ].Port
                IN  IF port \notin DOMAIN serviceMap
                      THEN /\ Hosts' = setService(Hosts, hostIndex, seJ, "unknown")
                           /\ seJ' = seJ + 1
                           /\ UNCHANGED <<pc, probes>>
                      ELSE IF isHTTPFamily(port)
                             THEN /\ pc' = "se_get"
                                  /\ probes' = Bump(probes, <<"http", requestURL(allDiscoveredHosts[seI], port), port>>)
                                  /\ UNCHANGED <<Hosts, seJ>>
                             ELSE /\ Hosts' = setService(Hosts, hostIndex, seJ, serviceMap[port])
                                  /\ seJ' = seJ + 1
                                  /\ UNCHANGED <<pc, probes>>
  /\ UNCHANGED <<pool, cidr, response, httpResult, output, config, Targets, UnresponsiveHosts, mutex, pdVars, hdVars, loopVars,
                 allDiscoveredHosts, scan, msVars, seI, section, pingResult, dials, scanOK>>

\* client.Get returns, after the redirect it followed if any, and enumerateService returns the label
ServiceEnumeration_Get ==
  /\ pc = "se_get"
  /\ LET hostIndex == hostIndexOf(Hosts, allDiscoveredHosts[seI])
         port == Hosts[hostIndex].Ports[seJ].Port
     IN  \E resp \in HTTPOutcomes :
           /\ Hosts' = setService(Hosts, hostIndex, seJ, httpLabel(port, resp))
           /\ httpResult' = (<<allDiscoveredHosts[seI], seJ>> :> resp) @@ httpResult
           /\ probes' = IF resp.redirected
                           THEN Bump(probes, <<"http", redirectURL(allDiscoveredHosts[seI], port), port>>)
                           ELSE probes
  /\ seJ' = seJ + 1
  /\ pc' = "se_port"
  /\ UNCHANGED <<pool, cidr, response, output, config, Targets, UnresponsiveHosts, mutex, pdVars, hdVars, loopVars,
                 allDiscoveredHosts, scan, msVars, seI, section, pingResult, dials, scanOK>>

ServiceEnumeration_Unlock ==
  /\ pc = "se_unlock"
  /\ Unlock(MainThread)
  /\ seI' = seI + 1
  /\ pc' = "se_lock"
  /\ UNCHANGED <<pool, cidr, response, httpResult, output, config, Targets, store, pdVars, hdVars, loopVars, allDiscoveredHosts, scan,
                 msVars, seJ, section, history>>

\* ServiceEnumeration returns to RunScan
ServiceEnumeration_Return ==
  /\ pc = "se_done"
  /\ pc' = "gr_start"
  /\ probes' = <<>>
  /\ httpResult' = <<>>
  /\ UNCHANGED <<pool, cidr, response, output, config, Targets, store, mutex, pdVars, hdVars, loopVars, allDiscoveredHosts,
                 scan, msVars, seVars, section, pingResult, dials, scanOK>>

\* ------------------------------------- GenerateReport, GeneratePassiveReport

\* The read sections of a report: the totals, the text report, the CSV report.
ReportSections == 3

\* os.MkdirAll: on an error the report returns
Report_Start ==
  /\ pc = "gr_start"
  /\ \E made \in BOOLEAN :
       IF made THEN pc' = "gr_rlock" /\ section' = 1
               ELSE pc' = "done" /\ UNCHANGED section
  /\ UNCHANGED <<pool, cidr, response, httpResult, output, config, Targets, store, mutex, pdVars, hdVars, loopVars, allDiscoveredHosts,
                 scan, msVars, seVars, history>>

Report_RLock ==
  /\ pc = "gr_rlock"
  /\ RLock(MainThread)
  /\ pc' = "gr_read"
  /\ UNCHANGED <<pool, cidr, response, httpResult, output, config, Targets, store, pdVars, hdVars, loopVars, allDiscoveredHosts, scan,
                 msVars, seVars, section, history>>

Report_Read ==
  /\ pc = "gr_read"
  /\ pc' = "gr_runlock"
  /\ UNCHANGED <<pool, cidr, response, httpResult, output, config, Targets, store, mutex, pdVars, hdVars, loopVars, allDiscoveredHosts,
                 scan, msVars, seVars, section, history>>

\* The unlock; the later sections are read only if os.Create of their file succeeds
Report_RUnlock ==
  /\ pc = "gr_runlock"
  /\ RUnlock(MainThread)
  /\ \E next \in (section + 1)..(ReportSections + 1) :
       IF next > ReportSections
         THEN pc' = "done" /\ section' = 0
         ELSE pc' = "gr_rlock" /\ section' = next
  /\ UNCHANGED <<pool, cidr, response, httpResult, output, config, Targets, store, pdVars, hdVars, loopVars, allDiscoveredHosts, scan,
                 msVars, seVars, history>>

\* ------------------------------------------------------------------ system

Next ==
  \/ RunScan_Validate
  \/ PassiveDiscovery_Target
  \/ PassiveDiscovery_Amass
  \/ PassiveDiscovery_Lock
  \/ PassiveDiscovery_Update
  \/ PassiveDiscovery_Unlock
  \/ HostDiscovery_Expand
  \/ HostDiscovery_P1Spawn
  \/ HostDiscovery_P1Take
  \/ \E host \in busy : HostDiscovery_P1Finish(host)
  \/ HostDiscovery_P1Exit
  \/ HostDiscovery_P1Wait
  \/ HostDiscovery_P2Spawn
  \/ HostDiscovery_P2Take
  \/ \E host \in busy : HostDiscovery_P2Finish(host)
  \/ HostDiscovery_P2Exit
  \/ HostDiscovery_P2Wait
  \/ HostDiscovery_Convert
  \/ HostDiscovery_Lock
  \/ HostDiscovery_Update
  \/ HostDiscovery_Unlock
  \/ RunScan_Lock
  \/ RunScan_Update
  \/ RunScan_Unlock
  \/ MasscanScan_Start
  \/ MasscanScan_Run
  \/ MasscanScan_Lock
  \/ MasscanScan_Update
  \/ MasscanScan_Unlock
  \/ MasscanScan_RLock
  \/ MasscanScan_ReadBack
  \/ MasscanScan_RUnlock
  \/ RunScan_AfterMasscan
  \/ PortScan_Begin
  \/ PortScan_Spawn
  \/ PortScan_Take
  \/ \E host \in busy : scanHostPorts_Spawn(host)
  \/ \E host \in busy : scanHostPorts_Take(host)
  \/ \E host \in busy : \E port \in NetPorts : scanHostPorts_Finish(host, port)
  \/ \E host \in busy : scanHostPorts_Exit(host)
  \/ \E host \in busy : scanHostPorts_Wait(host)
  \/ \E host \in busy : scanHostPorts_Lock(host)
  \/ \E host \in busy : scanHostPorts_Update(host)
  \/ \E host \in busy : scanHostPorts_Unlock(host)
  \/ PortScan_Exit
  \/ PortScan_Wait
  \/ ServiceEnumeration_Lock
  \/ ServiceEnumeration_Port
  \/ ServiceEnumeration_Get
  \/ ServiceEnumeration_Unlock
  \/ ServiceEnumeration_Return
  \/ Report_Start
  \/ Report_RLock
  \/ Report_Read
  \/ Report_RUnlock

Spec == Init /\ [][Next]_vars

\* An active run with a worker, under a scheduler that runs a goroutine that can take a step, and external
\* commands and dials that return: ping, amass and masscan run under a context with a timeout,
\* the dials and the HTTP client have one.
LiveInit ==
  /\ Init
  /\ DiscoveryMode = "active"
  /\ Threads > 0
  /\ Len(Targets) <= 1 \/ Threads = 1     \* two workers on one target, or one worker on two

SpecLive == LiveInit /\ [][Next]_vars /\ WF_vars(Next)

\* The same runs, and the runs on the block of prefix length 0, alone and after a name.
TgtWhole == Target("cidr", "0.0.0.0/0", <<0, 0, 0, 0>>, 0)

RunInit ==
  \/ LiveInit
  \/ /\ Threads \in 1..MaxThreads
     /\ DiscoveryMode = "active"
     /\ Targets \in {<<TgtWhole>>, <<TgtName, TgtWhole>>}
     /\ StateInit
     /\ pool = NoPool
     /\ cidr = NoCIDR

SpecRun == RunInit /\ [][Next]_vars /\ WF_vars(Next)

\* ------------------------------------------------------------------------
\* main from the authorization prompt: the line the operator types, its normalisation and the
\* branch to RunScan or to os.Exit(1).

\* unicode.IsSpace on the characters of the model
Whitespace == {" ", "\t", "\r", "\n"}

\* reader.ReadString('\n'): the input up to and including the first newline, all of it when
\* the input ends without one (the error is dropped)
ReadString(stdin) ==
  IF \E i \in DOMAIN stdin : stdin[i] = "\n"
    THEN SubSeq(stdin, 1, CHOOSE i \in DOMAIN stdin : stdin[i] = "\n" /\ \A j \in 1..(i - 1) : stdin[j] # "\n")
    ELSE stdin

\* strings.ToLower on the letters of the model
LowerOf == ("Y" :> "y") @@ ("N" :> "n") @@ ("E" :> "e") @@ ("S" :> "s")
ToLower(str) == [i \in DOMAIN str |-> IF str[i] \in DOMAIN LowerOf THEN LowerOf[str[i]] ELSE str[i]]

\* strings.TrimSpace: the string without its leading and trailing white space
RECURSIVE TrimLeft(_)
TrimLeft(str) == IF str # <<>> /\ Head(str) \in Whitespace THEN TrimLeft(Tail(str)) ELSE str
RECURSIVE TrimRight(_)
TrimRight(str) ==
  IF str # <<>> /\ str[Len(str)] \in Whitespace THEN TrimRight(SubSeq(str, 1, Len(str) - 1)) ELSE str
TrimSpace(str) == TrimRight(TrimLeft(str))

\* A test that looks at the first letter of the answer only.
authorizedByFirstLetter(line) == TrimSpace(ToLower(line)) # <<>> /\ Head(TrimSpace(ToLower(line))) = "y"

\* response = strings.TrimSpace(strings.ToLower(response)); the negation of response != "y"
authorized(line) == TrimSpace(ToLower(line)) = <<"y">>

\* What the operator types, or pipes in, at the prompt.
StdinUniverse ==
  { <<"y", "\n">>, <<"Y", "\n">>, <<" ", "y", " ", "\n">>, <<"\t", "Y", "\r", "\n">>, <<"y">>,
    <<"y", "\n", "n", "\n">>,
    <<>>, <<"\n">>, <<" ", "\n">>, <<"n", "\n">>, <<"N", "\n">>, <<"y", "e", "s", "\n">>,
    <<"Y", "E", "S", "\n">>, <<"y", " ", "y", "\n">>, <<"n", "\n", "y", "\n">>, <<"n", "y", "\n">> }

\* One worker and at most one target: the run behind the gate is the run of Spec.
MainInit ==
  /\ Threads = 1
  /\ DiscoveryMode \in {"active", "passive"}
  /\ Targets \in {l \in TargetLists : Len(l) <= 1}
  /\ pc = "prompt"
  /\ Hosts = <<>>
  /\ allDiscoveredHosts = <<>>
  /\ PhaseInit
  /\ response = <<>>
  /\ pool = NoPool
  /\ cidr = NoCIDR

\* The read of the answer and the test: NewPDive2 and RunScan, or "Scan aborted." and os.Exit(1)
Main_Authorize ==
  /\ pc = "prompt"
  /\ \E stdin \in StdinUniverse :
       /\ response' = ReadString(stdin)
       /\ pc' = IF authorized(ReadString(stdin)) THEN "start" ELSE "exit"
  /\ UNCHANGED <<pool, cidr, httpResult, output, config, Targets, store, mutex, pdVars, hdVars, loopVars,
                 allDiscoveredHosts, scan, msVars, seVars, section, history>>

MainNext == Main_Authorize \/ Next

SpecMain == MainInit /\ [][MainNext]_vars

\* ------------------------------------------------------------------------
\* SpecCeiling: one worker loop of the engine with more items and goroutines than
\* a loop's ceiling.  The items are counted, not named: the loop is the number of
\* queued items, the number of probes executing and the WaitGroup counter.

\* The items queued for the loop.
MaxItems == 52

\* The bound of the for statement that starts the goroutines of a loop.
loopWorkers(kind, threads) ==
  CASE kind = "ping"     -> pingWorkers(threads)
    [] kind = "fallback" -> fallbackWorkers(threads)
    [] kind = "host"     -> hostWorkers(threads)
    [] kind = "port"     -> portWorkers(threads)

CeilingInit ==
  /\ Threads = 0
  /\ DiscoveryMode = "active"
  /\ Targets = <<>>
  /\ StateInit
  /\ cidr = NoCIDR
  /\ pool \in {[kind |-> k, threads |-> t, queued |-> MaxItems, running |-> 0, wg |-> 0,
                pc |-> "spawn"] : k \in {"fallback", "port"}, t \in 0..MaxItems}

\* for i := 0; i < n; i++ { wg.Add(1); go func() {...}() }
Pool_Spawn ==
  /\ pool.pc = "spawn"
  /\ pool' = [pool EXCEPT !.wg = Workers(loopWorkers(pool.kind, pool.threads)), !.pc = "wait"]
  /\ UNCHANGED <<cidr, response, httpResult, output, config, Targets, pc, store, mutex, pdVars, hdVars, loopVars,
                 allDiscoveredHosts, scan, msVars, seVars, section, history>>

\* A goroutine receives an item and starts its probe
Pool_Take ==
  /\ pool.wg - pool.running > 0
  /\ pool.queued > 0
  /\ pool' = [pool EXCEPT !.queued = @ - 1, !.running = @ + 1]
  /\ UNCHANGED <<cidr, response, httpResult, output, config, Targets, pc, store, mutex, pdVars, hdVars, loopVars,
                 allDiscoveredHosts, scan, msVars, seVars, section, history>>

\* A probe returns
Pool_Finish ==
  /\ pool.running > 0
  /\ pool' = [pool EXCEPT !.running = @ - 1]
  /\ UNCHANGED <<cidr, response, httpResult, output, config, Targets, pc, store, mutex, pdVars, hdVars, loopVars,
                 allDiscoveredHosts, scan, msVars, seVars, section, history>>

\* The range over the closed, empty channel ends: defer wg.Done()
Pool_Exit ==
  /\ pool.wg - pool.running > 0
  /\ pool.queued = 0
  /\ pool' = [pool EXCEPT !.wg = @ - 1]
  /\ UNCHANGED <<cidr, response, httpResult, output, config, Targets, pc, store, mutex, pdVars, hdVars, loopVars,
                 allDiscoveredHosts, scan, msVars, seVars, section, history>>

\* wg.Wait() returns
Pool_Wait ==
  /\ pool.pc = "wait"
  /\ pool.wg = 0
  /\ pool' = [pool EXCEPT !.pc = "returned"]
  /\ UNCHANGED <<cidr, response, httpResult, output, config, Targets, pc, store, mutex, pdVars, hdVars, loopVars,
                 allDiscoveredHosts, scan, msVars, seVars, section, history>>

CeilingNext ==
  \/ Pool_Spawn
  \/ Pool_Take
  \/ Pool_Finish
  \/ Pool_Exit
  \/ Pool_Wait

SpecCeiling == CeilingInit /\ [][CeilingNext]_vars

\* ------------------------------------------------------------------------
\* A worker loop in which the processing of an item can panic.  The goroutines of the ping
\* loop and of the host loop defer wg.Done() and nothing else: no function of the program
\* calls recover, so a panic in a goroutine ends the process with the items left in the queue.

MaxFaultItems == 4
MaxFaultThreads == 3

FaultInit ==
  /\ Threads = 0
  /\ DiscoveryMode = "active"
  /\ Targets = <<>>
  /\ StateInit
  /\ cidr = NoCIDR
  /\ pool \in {[kind |-> k, threads |-> t, queued |-> n, running |-> 0, wg |-> 0,
                pc |-> "spawn", faulted |-> FALSE] :
                  k \in {"ping", "host"}, t \in 1..MaxFaultThreads, n \in 1..MaxFaultItems}

\* The processing of an item panics: the deferred wg.Done() runs, nothing recovers, and the
\* runtime ends the process, with every goroutine of it
Pool_Panic ==
  /\ pool.running > 0
  /\ pool' = [pool EXCEPT !.running = 0, !.wg = 0, !.pc = "crashed", !.faulted = TRUE]
  /\ UNCHANGED <<cidr, response, httpResult, output, config, Targets, pc, store, mutex, pdVars, hdVars, loopVars,
                 allDiscoveredHosts, scan, msVars, seVars, section, history>>

FaultNext ==
  \/ Pool_Spawn
  \/ Pool_Take
  \/ Pool_Finish
  \/ Pool_Exit
  \/ Pool_Wait
  \/ Pool_Panic

\* A scheduler that runs a goroutine that can take a step.
SpecFault == FaultInit /\ [][FaultNext]_vars /\ WF_vars(FaultNext)

\* ------------------------------------------------------------------------
\* The fast-scan adapter called on its own: MasscanScan(hosts) on a store that already holds
\* records, with and without ports, of hosts of the list and of another host.

AdapterHosts == {"10.0.0.1", "example.com"}
OtherHost == "192.0.2.9"

\* The host lists of a call: the hosts in any order, none, one or all of them.
AdapterHostLists ==
  {l \in UNION {[1..n -> AdapterHosts] : n \in 0..Cardinality(AdapterHosts)} :
     \A j, k \in DOMAIN l : j # k => l[j] # l[k]}

AdapterStores ==
  { <<>>,
    <<HostInfo("10.0.0.1", "up", <<PortInfo(443, "https")>>)>>,
    <<HostInfo(OtherHost, "up", <<PortInfo(22, "ssh")>>),
      HostInfo("10.0.0.1", "discovered", <<PortInfo(443, "https"), PortInfo(8080, "http-alt")>>)>>,
    <<HostInfo("10.0.0.1", "up", <<PortInfo(80, "http")>>),
      HostInfo("example.com", "up", <<>>)>> }

AdapterInit ==
  /\ Threads \in 0..MaxThreads
  /\ DiscoveryMode = "active"
  /\ Targets = <<>>
  /\ pc = "ms_start"
  /\ Hosts \in AdapterStores
  /\ allDiscoveredHosts \in AdapterHostLists
  /\ LocalsInit
  /\ pool = NoPool
  /\ cidr = NoCIDR

AdapterNext ==
  \/ MasscanScan_Start
  \/ MasscanScan_Run
  \/ MasscanScan_Lock
  \/ MasscanScan_Update
  \/ MasscanScan_Unlock
  \/ MasscanScan_RLock
  \/ MasscanScan_ReadBack
  \/ MasscanScan_RUnlock
  \/ PortScan_Begin
  \/ PortScan_Spawn
  \/ PortScan_Take
  \/ PortScan_Exit
  \/ PortScan_Wait
  \/ \E host \in busy : scanHostPorts_Spawn(host)
  \/ \E host \in busy : scanHostPorts_Take(host)
  \/ \E host \in busy : \E port \in NetPorts : scanHostPorts_Finish(host, port)
  \/ \E host \in busy : scanHostPorts_Exit(host)
  \/ \E host \in busy : scanHostPorts_Wait(host)
  \/ \E host \in busy : scanHostPorts_Lock(host)
  \/ \E host \in busy : scanHostPorts_Update(host)
  \/ \E host \in busy : scanHostPorts_Unlock(host)

SpecAdapter == AdapterInit /\ [][AdapterNext]_vars

\* ------------------------------------------------------------------------
\* The loop of expandTargets over one CIDR block, an iteration at a time:
\*   for ip := ip.Mask(ipnet.Mask); ipnet.Contains(ip); inc(ip) { append ip.String() }
\* cidr.ip is the loop variable, cidr.last the address appended last, and cidr.left counts
\* the addresses of the block that are not appended yet.

\* Largest number of host bits of a block whose loop is run from its first iteration.
MaxBlockBits == 3
\* Iterations followed after all addresses of the block were appended.
MaxExtra == 2

CIDRAddresses == {<<10, 0, 0, 5>>, <<172, 16, 3, 77>>, <<192, 168, 255, 250>>, <<255, 255, 255, 254>>}

\* The last address of the block.
Broadcast(network, ones) == [j \in 1..4 |-> network[j] + Pow2(8 - MaskBits(ones, j)) - 1]

\* The loop at its first test, for a target address/ones.
LoopEntry(addr, ones) ==
  [ones |-> ones, network |-> Mask(addr, ones), ip |-> Mask(addr, ones), last |-> NoIP,
   left |-> Pow2(32 - ones), pc |-> "loop"]

\* The loop of a block of at least four addresses when all but the last two are appended:
\* every address up to there is in the block, so the loop gets there.
LoopLate(addr, ones) ==
  LET end == Broadcast(Mask(addr, ones), ones)
  IN  [ones |-> ones, network |-> Mask(addr, ones), ip |-> [end EXCEPT ![4] = @ - 1],
       last |-> [end EXCEPT ![4] = @ - 2], left |-> 2, pc |-> "loop"]

CIDRInit ==
  /\ Threads = 0
  /\ DiscoveryMode = "active"
  /\ Targets = <<>>
  /\ pc = "expand"
  /\ Hosts = <<>>
  /\ allDiscoveredHosts = <<>>
  /\ LocalsInit
  /\ pool = NoPool
  /\ cidr \in {LoopEntry(addr, ones) : addr \in CIDRAddresses, ones \in (32 - MaxBlockBits)..32}
              \cup {LoopLate(addr, ones) : addr \in CIDRAddresses, ones \in {0, 8, 16, 24}}

\* ipnet.Contains(ip) holds: the body appends ip.String(), then inc(ip)
CIDR_Append ==
  /\ cidr.pc = "loop"
  /\ Contains(cidr.network, cidr.ones, cidr.ip)
  /\ cidr.left > -MaxExtra
  /\ cidr' = [cidr EXCEPT !.last = cidr.ip, !.ip = inc(cidr.ip), !.left = @ - 1]
  /\ UNCHANGED <<pool, response, httpResult, output, config, Targets, pc, store, mutex, pdVars, hdVars, loopVars,
                 allDiscoveredHosts, scan, msVars, seVars, section, history>>

\* ipnet.Contains(ip) fails: the loop ends
CIDR_Exit ==
  /\ cidr.pc = "loop"
  /\ ~Contains(cidr.network, cidr.ones, cidr.ip)
  /\ cidr' = [cidr EXCEPT !.pc = "done"]
  /\ UNCHANGED <<pool, response, httpResult, output, config, Targets, pc, store, mutex, pdVars, hdVars, loopVars,
                 allDiscoveredHosts, scan, msVars, seVars, section, history>>

CIDRNext == CIDR_Append \/ CIDR_Exit

SpecCIDR == CIDRInit /\ [][CIDRNext]_vars

\* ------------------------------------------------------------------------
\* expandTargets on its own, over target lists with repeats, overlapping blocks and a
\* target with "/" that is no CIDR block.

\* Longest target list of SpecExpand.
MaxExpandTargets == 3
MaxServicePorts == 2    \* port records of a host when service identification is checked

Tgt30 == Target("cidr", "10.0.0.1/30", <<10, 0, 0, 1>>, 30)
Tgt31 == Target("cidr", "10.0.0.0/31", <<10, 0, 0, 0>>, 31)
TgtBadCIDR == Target("badcidr", "10.0.0.1/33", <<0, 0, 0, 0>>, 0)

ExpandUniverse == {TgtIP, TgtCIDR, TgtName, Tgt30, Tgt31, TgtBadCIDR}

ExpandLists == UNION {[1..n -> ExpandUniverse] : n \in 0..MaxExpandTargets}

\* A scan unit given as a target: a string without "/".
plainTarget(text) == Target("name", text, <<0, 0, 0, 0>>, 0)

ExpandInit ==
  /\ Threads = 0
  /\ DiscoveryMode = "active"
  /\ Targets \in ExpandLists
  /\ pc = "expand"
  /\ Hosts = <<>>
  /\ allDiscoveredHosts = <<>>
  /\ LocalsInit
  /\ pool = NoPool
  /\ cidr = NoCIDR

\* allHosts := p.expandTargets()
Expand_Targets ==
  /\ pc = "expand"
  /\ allHosts' = expandTargets(Targets)
  /\ pc' = "expanded"
  /\ UNCHANGED <<pool, cidr, response, httpResult, output, config, Targets, store, mutex, pdVars, liveHosts, liveHostsList,
                 loopVars, allDiscoveredHosts, scan, msVars, seVars, section, history>>

SpecExpand == ExpandInit /\ [][Expand_Targets]_vars

\* ------------------------------------------------------------------------
\* The parse of the fast-scanner output on its own, over lines of every kind.

ParseLineUniverse ==
  { <<"open", "tcp", "80", "10.0.0.5", "169000000">>,
    <<"open", "tcp", "443", "10.0.0.5">>,
    <<"open", "tcp", "80", "10.0.0.6", "169000000">>,
    <<"open", "tcp", "70000", "10.0.0.5", "169000000">>,
    <<"open", "tcp", "0", "10.0.0.5", "169000000">>,
    <<"open", "tcp", "-1", "10.0.0.6", "169000000">>,
    <<"closed", "tcp", "81", "10.0.0.5", "169000000">>,
    <<"open", "udp", "53", "10.0.0.5", "169000000">>,
    <<"open", "tcp", "80">>,
    <<"open", "tcp", "http", "10.0.0.5", "169000000">>,
    <<"#masscan">>,
    <<>> }

ParseInit ==
  /\ Threads = 0
  /\ DiscoveryMode = "active"
  /\ Targets = <<>>
  /\ pc = "parse"
  /\ Hosts = <<>>
  /\ allDiscoveredHosts = <<>>
  /\ UnresponsiveHosts = 0 /\ mutex = Unlocked /\ pdI = 1 /\ discoveredHosts = <<>>
  /\ allHosts = <<>> /\ liveHosts = {} /\ liveHostsList = <<>>
  /\ hostChan = <<>> /\ busy = {} /\ wg = 0 /\ scan = <<>> /\ psReturn = ""
  /\ tmpfile = "none" /\ masscanResults = <<>>
  /\ seI = 1 /\ seJ = 1 /\ section = 0
  /\ probes = <<>> /\ pingResult = <<>> /\ dials = <<>> /\ scanOK = <<>>
  /\ httpResult = <<>> /\ response = Authorized
  /\ pool = NoPool
  /\ cidr = NoCIDR
  /\ output \in {[kind |-> "ok", lines |-> l] :
                    l \in UNION {[1..n -> ParseLineUniverse] : n \in 0..MaxLines}}

\* "Parse masscan output": the loop over the lines
Parse_Output ==
  /\ pc = "parse"
  /\ masscanResults' = parseMasscan(<<>>, output.lines)
  /\ pc' = "parsed"
  /\ UNCHANGED <<pool, cidr, response, httpResult, output, config, Targets, store, mutex, pdVars, hdVars, loopVars,
                 allDiscoveredHosts, scan, psReturn, tmpfile, seVars, section, history>>

SpecParse == ParseInit /\ [][Parse_Output]_vars

\* ------------------------------------------------------------------------
\* Service identification called on its own: ServiceEnumeration(hosts) on a store whose
\* records hold ports of the table, HTTP-family or not, and ports outside it.

ServicePorts == {22, 80, 443, 8080, 8443, 9999}

\* The port lists of a record, a port twice included.
ServicePortLists(n) == UNION {[1..k -> {PortInfo(port, "") : port \in ServicePorts}] : k \in 0..n}

\* One record, or two records of two hosts.
ServiceStores ==
  {<<HostInfo("10.0.0.1", "up", ports)>> : ports \in ServicePortLists(MaxServicePorts)}
    \cup {<<HostInfo("10.0.0.1", "up", ports), HostInfo("example.com", "discovered", more)>> :
            ports \in ServicePortLists(1), more \in ServicePortLists(1)}

\* The hosts of the call, one of them with no record.
ServiceHostLists ==
  {<<"10.0.0.1">>, <<"10.0.0.1", "example.com">>, <<"example.com", "10.0.0.1">>,
   <<OtherHost, "10.0.0.1">>}

ServiceInit ==
  /\ Threads \in 0..MaxThreads
  /\ DiscoveryMode = "active"
  /\ Targets = <<>>
  /\ pc = "se_lock"
  /\ Hosts \in ServiceStores
  /\ allDiscoveredHosts \in ServiceHostLists
  /\ LocalsInit
  /\ pool = NoPool
  /\ cidr = NoCIDR

ServiceNext ==
  \/ ServiceEnumeration_Lock
  \/ ServiceEnumeration_Port
  \/ ServiceEnumeration_Get
  \/ ServiceEnumeration_Unlock
  \/ ServiceEnumeration_Return

SpecService == ServiceInit /\ [][ServiceNext]_vars

\* ------------------------------------------------------------------------
\* Properties

P1Pcs == {"p1_spawn", "p1_wait"}
P2Pcs == {"p2_spawn", "p2_wait"}
PSPcs == {"ps_spawn", "ps_wait"}

\* The main goroutine is past the wg.Wait() of the loop.
PhasesOver == pc \in {"hd_convert", "hd_lock", "hd_update", "hd_unlock"}
AfterP1 == pc \in P2Pcs \/ PhasesOver
AfterP2 == PhasesOver
AfterPortScan == pc \in {"ms_rlock", "ms_readback", "ms_runlock"}
AfterPortLoop(host) == scan[host].pc \in {"lock", "update", "unlock"}

PingOK(host) == host \in DOMAIN pingResult /\ pingResult[host]
DialOK(host) == host \in DOMAIN dials /\ \E k \in DOMAIN dials[host] : dials[host][k].ok

\* The hosts queued for phase 2: those that did not answer the ping.
NonPingHosts == {h \in Range(allHosts) : ~PingOK(h)}

PingsDone ==
  \A h \in Range(allHosts) : Count(probes, <<"ping", h, 0>>) = 1 /\ h \in DOMAIN pingResult

FallbacksDone ==
  \A h \in NonPingHosts : Count(probes, <<"fallback", h, 0>>) = 1 /\ h \in DOMAIN dials

HostScansDone ==
  \A h \in Range(allDiscoveredHosts) :
    Count(probes, <<"scanHostPorts", h, 0>>) = 1 /\ h \in DOMAIN scanOK /\ h \notin busy

PortsDone(host) ==
  /\ scan[host].busy = {}
  /\ \A port \in Range(portQueue(commonPorts)) : Count(probes, <<"scanPort", host, port>>) = 1

NoneTwice ==
  \A k \in DOMAIN probes :
    k[1] \in {"ping", "fallback", "scanHostPorts", "scanPort"} => probes[k] = 1

\* C1: in each of the four worker loops, started with at least one goroutine, no item is
\* taken twice, and once the loop's wg.Wait() has returned every queued item has been taken
\* and its probe has returned.
C1_EveryItemExactlyOnce ==
  /\ NoneTwice
  /\ (AfterP1 /\ pingWorkers(Threads) >= 1) => PingsDone
  /\ (AfterP2 /\ fallbackWorkers(Threads) >= 1) => FallbacksDone
  /\ (AfterPortScan /\ hostWorkers(Threads) >= 1) => HostScansDone
  /\ \A h \in DOMAIN scan : (AfterPortLoop(h) /\ portWorkers(Threads) >= 1) => PortsDone(h)

\* Two goroutines have scanned two hosts, and each port of each host was probed once.
C1_Witness ==
  /\ pc = "ms_rlock"
  /\ Threads = 2
  /\ Len(allDiscoveredHosts) = 2
  /\ \A h \in Range(allDiscoveredHosts) :
       \A port \in {22, 80} : Count(probes, <<"scanPort", h, port>>) = 1

\* C2: the store never holds two records with the same host identifier.
C2_UniqueHosts ==
  \A j, k \in DOMAIN Hosts : j # k => Hosts[j].Host # Hosts[k].Host

HoldsLock(thread) == mutex.writer = thread \/ thread \in mutex.readers

\* The main goroutine is inside an external command or an HTTP request.
MainBlocked == pc \in {"pd_amass", "ms_running", "se_get"}

\* C3: no goroutine holds the store's lock while a network or process call of its own is
\* in progress (the main goroutine in amass, masscan or an HTTP request; the goroutine
\* that scans a host while the port probes of that host are running).
C3_NoLockAcrossBlockingCall ==
  /\ MainBlocked => ~HoldsLock(MainThread)
  /\ \A h \in DOMAIN scan : scan[h].busy # {} => ~HoldsLock(h)

\* C4: whatever the configured thread count, also zero, once a loop has returned every
\* queued item has been processed.
C4_ZeroThreadsStillProcess ==
  /\ AfterP1 => PingsDone
  /\ AfterP2 => FallbacksDone
  /\ AfterPortScan => HostScansDone
  /\ \A h \in DOMAIN scan : AfterPortLoop(h) => PortsDone(h)

\* C5: at most 20 fallback probes, and at most 50 port probes of one host, execute at
\* the same time, whatever the configured thread count.
C5_ProbesWithinCeiling ==
  /\ pool.kind = "fallback" => pool.running <= 20
  /\ pool.kind = "port" => pool.running <= 50

\* More threads are configured than the ceiling allows, and the ceiling is reached.
C5_Witness == pool.kind = "fallback" /\ pool.threads > 20 /\ pool.running = 20

\* HostDiscovery has returned (active mode).
DiscoveryReturned ==
  /\ DiscoveryMode = "active"
  /\ \/ pc \in {"hd_unlock", "rs_lock", "rs_update", "rs_unlock", "ms_start", "ms_running",
                "ms_lock", "ms_update", "ms_unlock", "ms_rlock", "ms_readback", "ms_runlock",
                "rs_after", "ps_start", "ps_spawn", "ps_wait", "se_lock", "se_port", "se_get",
                "se_unlock", "se_done", "gr_start", "gr_rlock", "gr_read", "gr_runlock"}
     \/ pc = "done" /\ Len(Targets) > 0

\* C6: after HostDiscovery, the unresponsive count plus the number of live hosts is the
\* number of distinct expanded targets, every live host is an expanded target and none is
\* listed twice.
C6_DiscoveryCounts ==
  DiscoveryReturned =>
    /\ UnresponsiveHosts + Len(liveHostsList) = Cardinality(Range(expandAll(Targets)))
    /\ Range(liveHostsList) \subseteq Range(expandAll(Targets))
    /\ Cardinality(Range(liveHostsList)) = Len(liveHostsList)

\* Two scan units, one live and one unresponsive.
C6_Witness ==
  pc = "hd_unlock" /\ UnresponsiveHosts = 1 /\ Len(liveHostsList) = 1

DiscoveryRunning == pc \in P1Pcs \cup P2Pcs \/ PhasesOver

\* C7: a host whose ping failed is live exactly if one of its fallback dials connected; a
\* host that failed both is not live and is counted unresponsive; and once a probe has
\* failed, every host is still pinged and every host that did not answer is still dialled.
C7_FallbackDecidesLiveness ==
  /\ DiscoveryRunning =>
       \A h \in liveHosts : PingOK(h) \/ DialOK(h)
  /\ PhasesOver =>
       /\ \A h \in Range(allHosts) :
            (h \in DOMAIN pingResult /\ ~pingResult[h]) =>
              /\ h \in DOMAIN dials
              /\ h \in liveHosts <=> \E k \in DOMAIN dials[h] : dials[h][k].ok
       /\ (\E h \in DOMAIN pingResult : ~pingResult[h]) => PingsDone /\ FallbacksDone
  /\ pc = "hd_unlock" =>
       /\ UnresponsiveHosts = Cardinality(Range(allHosts) \ liveHosts)
       /\ \A h \in Range(allHosts) \ liveHosts : h \notin Range(liveHostsList)

\* One host failed the ping and port 80 and connected on port 22; another failed everything.
C7_Witness ==
  /\ pc = "hd_unlock"
  /\ \E h \in liveHosts :
       /\ ~pingResult[h]
       /\ dials[h][1] = [port |-> 80, ok |-> FALSE]
       /\ dials[h][Len(dials[h])] = [port |-> 22, ok |-> TRUE]
  /\ \E h \in Range(allHosts) \ liveHosts :
       ~pingResult[h] /\ Len(dials[h]) = Len(discoveryPorts)

PortsOf(host) == Hosts[hostIndexOf(Hosts, host)].Ports

\* C8: no update of a concurrent writer is lost.  The live set holds exactly the hosts whose
\* ping or fallback probe has succeeded, the store then gets one "up" record for each; and
\* during and after the port scan every host whose scan has finished carries exactly the
\* ports its own goroutines found open, each once.
C8_NoLostUpdates ==
  /\ DiscoveryRunning => liveHosts = {h \in Range(allHosts) : PingOK(h) \/ DialOK(h)}
  /\ pc = "hd_unlock" =>
       LET up == {k \in DOMAIN Hosts : Hosts[k].Status = "up"}
       IN  /\ Cardinality(up) = Cardinality(liveHosts)
           /\ {Hosts[k].Host : k \in up} = liveHosts
  /\ (pc \in PSPcs \/ AfterPortScan) =>
       \A h \in DOMAIN scanOK :
         h \notin busy =>
           /\ {PortsOf(h)[k].Port : k \in DOMAIN PortsOf(h)} = scanOK[h]
           /\ Len(PortsOf(h)) = Cardinality(scanOK[h])

\* Two hosts are scanned at the same time; one goroutine has written its ports, the other
\* waits for the lock with ports of its own.
C8_Witness ==
  \E h1, h2 \in DOMAIN scan :
    /\ h1 # h2
    /\ scan[h1].pc = "unlock" /\ scan[h1].openPorts # <<>>
    /\ scan[h2].pc = "lock" /\ scan[h2].openPorts # <<>>

\* The statements of the main goroutine that write, and that read, the host collection.
MainWrites == {"pd_update", "hd_update", "rs_update", "ms_update", "se_port", "se_get", "se_unlock"}
MainReads == {"ms_readback", "gr_read"}

StoreAccessLocked ==
  /\ pc \in MainWrites => mutex.writer = MainThread
  /\ pc \in MainReads => MainThread \in mutex.readers
  /\ \A h \in DOMAIN scan : scan[h].pc \in {"update", "unlock"} => mutex.writer = h
  /\ mutex.writer # NoThread => mutex.readers = {}

\* C9: every goroutine at a statement that writes the host collection holds the lock
\* exclusively, every goroutine at a statement that reads it holds it at least shared, no
\* reader overlaps a writer, and the host collection changes only in a step of the
\* goroutine that holds the lock exclusively.
C9_StoreAccessUnderLock ==
  /\ []StoreAccessLocked
  /\ [][Hosts' # Hosts => (mutex.writer # NoThread /\ mutex.readers = {})]_vars

\* One scanning goroutine writes the store while another waits for the lock.
C9_Witness ==
  \E h1, h2 \in DOMAIN scan :
    h1 # h2 /\ scan[h1].pc = "update" /\ mutex.writer = h1 /\ scan[h2].pc = "lock"

InStore(host) == hostIndexOf(Hosts, host) # -1

ScannedInStore(host) == host \in DOMAIN scanOK /\ host \notin busy /\ InStore(host)

\* C11: during and after PortScan, the first record of every host whose scan has returned
\* holds exactly the scanned ports that connected, each once, with state "open" and an
\* empty service label, and nothing of what it held before; it is empty when none connected.
C11_PortsReplaced ==
  (pc \in PSPcs \/ AfterPortScan) =>
    \A h \in DOMAIN scanOK :
      ScannedInStore(h) =>
        /\ Range(PortsOf(h)) = {PortInfo(port, "") : port \in scanOK[h]}
        /\ Len(PortsOf(h)) = Cardinality(scanOK[h])

\* The store held other ports of a host and holds port 22 alone after its scan, and a scan
\* that found nothing has left an empty collection.
C11_Witness ==
  /\ pc = "ms_rlock"
  /\ Hosts \notin AdapterStores
  /\ \E h \in DOMAIN scanOK : ScannedInStore(h) /\ scanOK[h] = {22} /\ Len(PortsOf(h)) = 1
  /\ \E h \in DOMAIN scanOK : ScannedInStore(h) /\ scanOK[h] = {} /\ PortsOf(h) = <<>>

\* C12: no host record holds two port records with the same port number.
C12_UniquePorts ==
  \A k \in DOMAIN Hosts :
    \A i, j \in DOMAIN Hosts[k].Ports :
      i # j => Hosts[k].Ports[i].Port # Hosts[k].Ports[j].Port

\* Line k of the output names an open TCP port: at least four fields, "open", "tcp", an
\* integer, a host.
Qualifies(line) ==
  /\ Len(line) >= 4
  /\ line[1] = "open"
  /\ line[2] = "tcp"
  /\ line[3] \in DOMAIN AtoiTable

QualifyingLines(host) ==
  {k \in DOMAIN output.lines : Qualifies(output.lines[k]) /\ output.lines[k][4] = host}

ParsedPorts(host) ==
  IF host \in DOMAIN masscanResults THEN masscanResults[host] ELSE <<>>

\* The fourth fields of the output.
LineHosts == {output.lines[k][4] : k \in {j \in DOMAIN output.lines : Len(output.lines[j]) >= 4}}

\* C13: the parsed mapping holds port P for host H exactly if a line with at least four
\* fields reads "open", "tcp", the integer P, H; a host is in the mapping only with a port;
\* every qualifying line gives one record, open and without a service label, whatever the
\* lines before it were.
C13_ParseQualifyingLines ==
  pc = "parsed" =>
    /\ \A host \in LineHosts \cup DOMAIN masscanResults :
         /\ {ParsedPorts(host)[k].Port : k \in DOMAIN ParsedPorts(host)}
              = {AtoiTable[output.lines[k][3]] : k \in QualifyingLines(host)}
         /\ Len(ParsedPorts(host)) = Cardinality(QualifyingLines(host))
         /\ \A k \in DOMAIN ParsedPorts(host) :
              ParsedPorts(host)[k] = PortInfo(ParsedPorts(host)[k].Port, "")
    /\ \A host \in DOMAIN masscanResults : masscanResults[host] # <<>>

\* A closed port is skipped and the open port of the line after it is in the mapping.
C13_Witness ==
  /\ pc = "parsed"
  /\ output.lines = << <<"closed", "tcp", "81", "10.0.0.5", "169000000">>,
                       <<"open", "tcp", "80", "10.0.0.5", "169000000">> >>
  /\ masscanResults = ("10.0.0.5" :> <<PortInfo(80, "")>>)

\* The binary was not found, or its invocation failed.
Fallback == output.kind \in {"missing", "failed"}

MasscanStarts == Count(probes, <<"masscan", "", 0>>)

\* The mapping of every stored host that has ports to its ports.
StoredPorts(results) ==
  /\ DOMAIN results = {Hosts[k].Host : k \in {j \in DOMAIN Hosts : Len(Hosts[j].Ports) > 0}}
  /\ \A k \in DOMAIN Hosts : Len(Hosts[k].Ports) > 0 => results[Hosts[k].Host] = Hosts[k].Ports

\* C14: when the binary is missing or its invocation fails, the next step of the adapter
\* starts PortScan, which queues the host list of the call and, with a goroutine to run
\* them, scans every host once on every common port; the adapter returns only after it has
\* read the stored ports back, and returns the ports of every stored host that has any.
\* When the binary is missing, no masscan process is started and no file created.
C14_FallbackToPortScan ==
  /\ [](Fallback => pc \in {"ps_start", "ps_spawn", "ps_wait", "ms_rlock", "ms_readback",
                            "ms_runlock", "rs_after"})
  /\ [](output.kind = "missing" => MasscanStarts = 0 /\ tmpfile = "none")
  /\ []((Fallback /\ pc = "ps_spawn") => hostChan = allDiscoveredHosts)
  /\ []((Fallback /\ pc = "ms_runlock") =>
          /\ StoredPorts(masscanResults)
          /\ hostWorkers(Threads) >= 1 =>
               \A h \in Range(allDiscoveredHosts) :
                 /\ Count(probes, <<"scanHostPorts", h, 0>>) = 1
                 /\ \A port \in Range(portQueue(commonPorts)) :
                      Count(probes, <<"scanPort", h, port>>) = 1)
  /\ [][(Fallback' /\ ~Fallback) => pc' = "ps_start"]_vars
  /\ [][(Fallback /\ pc # "rs_after" /\ pc' = "rs_after") =>
          (pc = "ms_runlock" /\ masscanResults' = masscanResults)]_vars

\* masscan is missing, PortScan has found an open port of a host of the list, and the
\* mapping to return holds it next to the stored ports of a host that is not in the list.
C14_Witness ==
  /\ pc = "ms_runlock"
  /\ output.kind = "missing"
  /\ \E h \in Range(allDiscoveredHosts) :
       /\ h \in DOMAIN masscanResults
       /\ h \in DOMAIN scanOK
       /\ scanOK[h] # {}
       /\ Len(masscanResults[h]) = Cardinality(scanOK[h])
  /\ OtherHost \in DOMAIN masscanResults

\* The ports the parse found for host.
Parsed(host) == IF host \in DOMAIN masscanResults THEN masscanResults[host] ELSE <<>>

StoredHosts == {Hosts[k].Host : k \in DOMAIN Hosts}

\* Record k is the first record of a host of the list of the call.
FirstOfListed(k) ==
  /\ Hosts[k].Host \in Range(allDiscoveredHosts)
  /\ \A j \in 1..(k - 1) : Hosts[j].Host # Hosts[k].Host

\* C15: the merge of a successful fast-scanner run leaves every record in its place with its
\* host and status; the first record of a host of the list keeps its ports and gains, after
\* them, the ports parsed for the host; every other record keeps its ports unchanged; and
\* every host of the list without a record gets one new record, with status "up" and the
\* ports parsed for it, none if there are none.
C15_MasscanMerge ==
  [][pc = "ms_update" =>
       /\ Len(Hosts') = Len(Hosts) + Cardinality(Range(allDiscoveredHosts) \ StoredHosts)
       /\ \A k \in DOMAIN Hosts :
            Hosts'[k] = [Hosts[k] EXCEPT !.Ports = IF FirstOfListed(k)
                                                     THEN @ \o Parsed(Hosts[k].Host)
                                                     ELSE @]
       /\ {Hosts'[k] : k \in (Len(Hosts) + 1)..Len(Hosts')}
            = {HostInfo(h, "up", Parsed(h)) : h \in Range(allDiscoveredHosts) \ StoredHosts}
    ]_vars

\* After the merge: 10.0.0.1 has its two earlier ports and port 80 after them, example.com
\* has a new record without ports, and the record of the host outside the list is as before.
C15_Witness ==
  /\ pc = "ms_unlock"
  /\ Hosts = << HostInfo(OtherHost, "up", <<PortInfo(22, "ssh")>>),
                HostInfo("10.0.0.1", "discovered",
                         <<PortInfo(443, "https"), PortInfo(8080, "http-alt"), PortInfo(80, "")>>),
                HostInfo("example.com", "up", <<>>) >>

\* C16: the first step of the adapter called with an empty host list is its return with
\* the empty mapping, the store, the temporary file, the call history and the worker loops
\* untouched; so no process is ever started, no file created and no port scan run.
C16_EmptyHostList ==
  /\ [][(pc = "ms_start" /\ allDiscoveredHosts = <<>>) =>
          /\ pc' = "rs_after"
          /\ masscanResults' = <<>>
          /\ UNCHANGED <<Hosts, UnresponsiveHosts, tmpfile, output, probes, scan, hostChan, busy, wg>>
       ]_vars
  /\ [](allDiscoveredHosts = <<>> =>
          /\ pc \in {"ms_start", "rs_after"}
          /\ tmpfile = "none" /\ output = NoOutput /\ probes = <<>> /\ scan = <<>>
          /\ Hosts \in AdapterStores)

\* The adapter has returned from a call with no hosts on a store that holds records.
C16_Witness ==
  pc = "rs_after" /\ allDiscoveredHosts = <<>> /\ masscanResults = <<>> /\ Len(Hosts) = 2

\* The temporary file exists only between its creation and the return of the adapter.
AdapterRunning ==
  pc \in {"ms_running", "ms_lock", "ms_update", "ms_unlock", "ps_start", "ps_spawn", "ps_wait",
          "ms_rlock", "ms_readback", "ms_runlock"}

\* C17: once the adapter has returned, the temporary host file it created does not exist,
\* whichever way it returned.
C17_TempFileRemoved ==
  tmpfile = "exists" => AdapterRunning

\* The adapter has returned after a failed masscan run and the fallback, and the file it
\* had created is removed.
C17_Witness ==
  pc = "rs_after" /\ output.kind = "failed" /\ tmpfile = "removed"

\* Address a is numerically greater than address b.
Greater(a, b) ==
  \E j \in 1..4 : a[j] > b[j] /\ \A k \in 1..(j - 1) : a[k] = b[k]

FirstIndex(l, x) == CHOOSE k \in DOMAIN l : l[k] = x /\ \A j \in 1..(k - 1) : l[j] # x

\* removeDuplicates keeps the first occurrence of each string, in first-seen order.
DedupKeepsFirst ==
  \A l \in UNION {[1..n -> {"a", "b", "c"}] : n \in 0..3} :
    LET d == removeDuplicates(l)
    IN  /\ Range(d) = Range(l)
        /\ Cardinality(Range(d)) = Len(d)
        /\ \A j, k \in DOMAIN d : j < k => FirstIndex(l, d[j]) < FirstIndex(l, d[k])

\* C18: the loop over a CIDR block of any prefix length appends the network address first,
\* then every time an address numerically greater than the one before, never more addresses
\* than the 2^(32-p) of the block, and ends when it has appended all of them, the last
\* address of the block last; and the dedup keeps first occurrences in first-seen order.
C18_ExactBlockAscending ==
  /\ [](cidr.left >= 0)
  /\ [](cidr.pc = "done" => (cidr.left = 0 /\ cidr.last = Broadcast(cidr.network, cidr.ones)))
  /\ [][cidr'.last # cidr.last =>
          \/ cidr.last = NoIP /\ cidr'.last = cidr.network
          \/ cidr.last # NoIP /\ Greater(cidr'.last, cidr.last)]_vars
  /\ []DedupKeepsFirst

\* The scan units of a list, given again as targets.
AsTargets(units) == [k \in DOMAIN units |-> plainTarget(units[k])]

\* C19: the expansion of the scan units of an expansion is the same sequence; every target
\* list with the same targets, in whatever order and however often repeated, expands to
\* the same set of scan units; and every scan unit is in the expansion once.
C19_ExpansionIdempotent ==
  pc = "expanded" =>
    /\ expandTargets(AsTargets(allHosts)) = allHosts
    /\ \A other \in {l \in ExpandLists : Range(l) = Range(Targets)} :
         Range(expandTargets(other)) = Range(allHosts)
    /\ Cardinality(Range(allHosts)) = Len(allHosts)

\* Two overlapping blocks and an address of both: four scan units, each once.
C19_Witness ==
  /\ pc = "expanded"
  /\ Targets = <<Tgt31, Tgt30, TgtIP>>
  /\ allHosts = <<"10.0.0.0", "10.0.0.1", "10.0.0.2", "10.0.0.3">>

\* The hosts that answered: what the outcomes of the probes of this run make live.
Answered == {h \in Range(expandAll(Targets)) : PingOK(h) \/ DialOK(h)}

\* The port numbers recorded for host, over all its records.
PortSet(host) ==
  UNION {{Hosts[k].Ports[j].Port : j \in DOMAIN Hosts[k].Ports} :
           k \in {i \in DOMAIN Hosts : Hosts[i].Host = host}}

\* The port numbers the lines of the fast-scanner output give for host.
OutputPorts(host) ==
  {AtoiTable[output.lines[k][3]] : k \in {j \in DOMAIN output.lines : output.lines[j][4] = host}}

\* C20: the aggregate is a function of the outcomes of the external calls of the run,
\* whatever the interleaving of the goroutines was.  After HostDiscovery the store holds the
\* hosts amass gave and the hosts that answered, a record for each, and the unresponsive
\* count is the number of expanded targets that did not answer; after PortScan the ports of
\* a host are the ports that connected; after the merge of a fast-scanner run they are the
\* ports of its output.
C20_AggregateDeterministic ==
  /\ pc = "hd_unlock" =>
       /\ StoredHosts = Range(discoveredHosts) \cup Answered
       /\ Len(Hosts) = Len(discoveredHosts) + Cardinality(Answered)
       /\ UnresponsiveHosts = Cardinality(Range(expandAll(Targets)) \ Answered)
  /\ AfterPortScan =>
       \A h \in StoredHosts :
         PortSet(h) = IF h \in DOMAIN scanOK THEN scanOK[h] ELSE {}
  /\ pc = "ms_unlock" =>
       \A h \in StoredHosts : PortSet(h) = OutputPorts(h)

\* Two goroutines have scanned two hosts, and the two port probes of one of them, run at
\* the same time, have both connected.
C20_Witness ==
  /\ pc = "ms_rlock"
  /\ Threads = 2
  /\ Cardinality(DOMAIN scanOK) = 2
  /\ \E h \in DOMAIN scanOK : scanOK[h] = {22, 80} /\ PortSet(h) = {22, 80}

\* ------------------------------------------------------- service labelling

SEPcs == {"se_lock", "se_port", "se_get", "se_unlock", "se_done"}

\* The ports the specification calls HTTP-family, and the names it gives them.
HTTPPorts == {80, 443, 8080, 8443}
HTTPName == (80 :> "http") @@ (443 :> "https") @@ (8080 :> "http-alt") @@ (8443 :> "https-alt")

\* The record the pass labels for the k-th host of the list, 0 when the store has none.
RecordOf(k) ==
  IF \E i \in DOMAIN Hosts : Hosts[i].Host = allDiscoveredHosts[k]
    THEN CHOOSE i \in DOMAIN Hosts :
           Hosts[i].Host = allDiscoveredHosts[k] /\ \A m \in 1..(i - 1) : Hosts[m].Host # allDiscoveredHosts[k]
    ELSE 0

PortsOfListed(k) == IF RecordOf(k) = 0 THEN <<>> ELSE Hosts[RecordOf(k)].Ports

\* The port records the running pass has labelled: <<k, j>> is the j-th port of the k-th host.
Labelled ==
  IF pc \notin SEPcs THEN {}
  ELSE {kj \in UNION {{<<k, j>> : j \in DOMAIN PortsOfListed(k)} : k \in DOMAIN allDiscoveredHosts} :
          \/ kj[1] < seI
          \/ kj[1] = seI /\ pc \in {"se_port", "se_get", "se_unlock"} /\ kj[2] < seJ}

\* The port record whose request is under way.
InFlight == IF pc = "se_get" THEN {<<seI, seJ>>} ELSE {}

HTTPKeys == {key \in DOMAIN probes : key[1] = "http"}

\* C21: a labelled port record whose port is not one of 80, 443, 8080, 8443 carries the name
\* the well-known-port table gives its port, "unknown" when the table has no entry, and no
\* request of the pass is for such a port.
C21_TableLabelNoRequest ==
  /\ \A kj \in Labelled :
       LET rec == PortsOfListed(kj[1])[kj[2]]
       IN  rec.Port \notin HTTPPorts =>
             rec.Service = (IF rec.Port \in DOMAIN serviceMap THEN serviceMap[rec.Port] ELSE "unknown")
  /\ \A key \in HTTPKeys : key[3] \in HTTPPorts

\* A pass over 10.0.0.1 has labelled port 22 "ssh" and port 9999 "unknown" and sent no request.
C21_Witness ==
  /\ pc = "se_done"
  /\ \E k \in DOMAIN allDiscoveredHosts :
       /\ Len(PortsOfListed(k)) = 2
       /\ PortsOfListed(k)[1] = PortInfo(22, "ssh")
       /\ PortsOfListed(k)[2] = PortInfo(9999, "unknown")
  /\ probes = <<>>

\* C22: a labelled record of port 80, 443, 8080 or 8443 carries "<service> (S)" when its
\* request gave a response with the non-empty Server header S, and the bare service name when
\* the request failed or the header is missing or empty; when the pass is over, every port of
\* every listed host that has a record is labelled, whatever failed on the way.
C22_HTTPLabel ==
  /\ \A kj \in Labelled :
       LET rec == PortsOfListed(kj[1])[kj[2]]
           key == <<allDiscoveredHosts[kj[1]], kj[2]>>
       IN  rec.Port \in HTTPPorts =>
             /\ key \in DOMAIN httpResult
             /\ rec.Service =
                  IF ~httpResult[key].err /\ httpResult[key].server # ""
                    THEN HTTPName[rec.Port] \o " (" \o httpResult[key].server \o ")"
                    ELSE HTTPName[rec.Port]
  /\ pc = "se_done" =>
       \A k \in DOMAIN allDiscoveredHosts :
         /\ \A j \in DOMAIN PortsOfListed(k) : <<k, j>> \in Labelled /\ PortsOfListed(k)[j].Service # ""
         /\ \A j \in DOMAIN PortsOfListed(k) :
              PortsOfListed(k)[j].Port \in HTTPPorts => <<allDiscoveredHosts[k], j>> \in DOMAIN httpResult

\* The request of port 80 of the first host failed, and the pass went on to label port 8443 of
\* it "https-alt (nginx)" and a port of the second host.
C22_Witness ==
  /\ pc = "se_done"
  /\ Len(allDiscoveredHosts) = 2
  /\ Len(PortsOfListed(1)) = 1 /\ Len(PortsOfListed(2)) = 1
  /\ PortsOfListed(1)[1] = PortInfo(80, "http")
  /\ httpResult[<<allDiscoveredHosts[1], 1>>].err
  /\ PortsOfListed(2)[1] = PortInfo(8443, "https-alt (nginx)")

\* The URL of the one request the specification gives a port record.
SchemeURL(host, port) ==
  CASE port = 80 -> "http://" \o host
    [] port = 443 -> "https://" \o host
    [] port = 8080 -> "http://" \o host \o ":8080"
    [] port = 8443 -> "https://" \o host \o ":8443"

\* The port records, labelled or with their request under way, that a request key is for.
RequestsDue(key) ==
  Cardinality({kj \in Labelled \cup InFlight :
                 LET rec == PortsOfListed(kj[1])[kj[2]]
                 IN  /\ rec.Port \in HTTPPorts
                     /\ key = <<"http", SchemeURL(allDiscoveredHosts[kj[1]], rec.Port), rec.Port>>})

\* C23: during a pass, the requests sent are one per record of port 80, 443, 8080 or 8443 that
\* is labelled or being labelled, to the URL whose scheme the table entry of the port fixes;
\* no request goes anywhere else.
C23_OneRequestPerRecord ==
  pc \in SEPcs => \A key \in HTTPKeys : probes[key] = RequestsDue(key)

\* ------------------------------------------------------------- run level

PDPcs == {"pd_loop", "pd_amass", "pd_lock", "pd_update", "pd_unlock"}
HDPcs == {"hd_start"} \cup P1Pcs \cup P2Pcs \cup {"hd_convert", "hd_lock", "hd_update", "hd_unlock"}
EnsurePcs == {"rs_lock", "rs_update", "rs_unlock"}
MSPcs == {"ms_start", "ms_running", "ms_lock", "ms_update", "ms_unlock", "ms_rlock",
          "ms_readback", "ms_runlock", "rs_after"}
PortScanPcs == {"ps_start"} \cup PSPcs
ReportPcs == {"gr_start", "gr_rlock", "gr_read", "gr_runlock"}

\* The fast scan, the built-in port scan or service identification is running.
ScanRunning == pc \in EnsurePcs \cup MSPcs \cup PortScanPcs \cup SEPcs

\* RunScan's returns before the scan.
StopsWhenEmpty ==
  /\ (pc = "start" /\ pc' # "start" /\ Targets' = <<>>) => pc' = "done"
  /\ (pc = "pd_unlock" /\ pc' # "pd_unlock" /\ DiscoveryMode = "passive" /\ discoveredHosts = <<>>)
       => pc' = "done"
  /\ (pc = "hd_unlock" /\ pc' # "hd_unlock" /\ discoveredHosts = <<>> /\ liveHostsList = <<>>)
       => pc' = "done"
  /\ pc = "done" => pc' = "done"

\* C24: with no valid target the run ends at validation and no phase runs; a passive run that
\* enumerated no host and an active run with no enumerated and no live host end there; the
\* fast scan, the port scan and service identification run only with a host to work on.
C24_StopsWhenEmpty ==
  /\ [](pc \in PDPcs \cup HDPcs \cup ReportPcs \/ ScanRunning => Targets # <<>>)
  /\ [](ScanRunning => DiscoveryMode = "active" /\ allDiscoveredHosts # <<>>)
  /\ [](pc \in ReportPcs /\ DiscoveryMode = "passive" => discoveredHosts # <<>>)
  /\ [][StopsWhenEmpty]_vars

\* An active run whose host discovery probed a host and found nothing has stopped.
C24_Witness ==
  /\ pc = "done"
  /\ DiscoveryMode = "active"
  /\ Threads > 0
  /\ allHosts # <<>>
  /\ discoveredHosts = <<>> /\ liveHostsList = <<>> /\ allDiscoveredHosts = <<>>
  /\ UnresponsiveHosts = Len(allHosts)
  /\ Hosts = <<>>

\* C25: in an active run, whatever amass did, host discovery is performed; when the fast
\* scanner is missing or fails, the fallback port scan runs and its results are read back;
\* and a run whose host discovery found a live host reaches report generation.
C25_RunSurvivesCollaborators ==
  /\ (pc = "pd_loop") ~> (pc = "hd_unlock")
  /\ (Fallback /\ pc = "ps_start") ~> (Fallback /\ pc = "ms_readback")
  /\ (pc = "hd_unlock" /\ liveHostsList # <<>>) ~> (pc = "gr_start")

\* amass gave nothing, masscan failed, and the run reads back the ports the fallback scan
\* found on a live host.
C25_Witness ==
  /\ pc = "ms_readback"
  /\ output.kind = "failed"
  /\ discoveredHosts = <<>>
  /\ liveHostsList # <<>>
  /\ \E k \in DOMAIN Hosts : Hosts[k].Host = liveHostsList[1] /\ Hosts[k].Ports # <<>>

\* C26: after a fault in the processing of one item, the items left in the queue are still
\* processed and the loop still returns.
C26_FaultIsolated ==
  pool.faulted ~> (pool.pc = "returned" /\ pool.queued = 0)

\* The port records of the store and of the mapping MasscanScan builds and returns.
AllPortRecords ==
  UNION {Range(Hosts[k].Ports) : k \in DOMAIN Hosts}
    \cup UNION {Range(masscanResults[h]) : h \in DOMAIN masscanResults}

\* C27: every port record, in the store and in the mapping of the fast scan, has the state
\* "open" and a port number from 1 to 65535, whatever the fast scanner printed.
C27_OpenPortsInRange ==
  \A rec \in AllPortRecords : rec.State = "open" /\ rec.Port \in 1..65535

\* The port loop of one host starts its goroutines.
PortLoopStarts == pool.kind = "port" /\ pool.pc = "spawn" /\ pool'.pc = "wait"

\* The goroutines the host loop of PortScan starts with the thread count of the pool.
HostLevelWorkers == Workers(hostWorkers(pool.threads))

C29_PassiveSendsNothing ==
  DiscoveryMode = "passive" =>
    /\ \A key \in DOMAIN probes : key[1] = "amass"
    /\ pc \in {"start", "done"} \cup PDPcs \cup ReportPcs
    /\ pingResult = <<>> /\ dials = <<>> /\ scanOK = <<>> /\ httpResult = <<>>
    /\ output = NoOutput /\ masscanResults = <<>>
    /\ \A k \in DOMAIN Hosts : Hosts[k].Status = "discovered" /\ Hosts[k].Ports = <<>>

\* A passive run has enumerated a host with amass and is writing its report.
C29_Witness ==
  /\ DiscoveryMode = "passive"
  /\ pc = "gr_read"
  /\ Hosts # <<>>
  /\ Len(discoveredHosts) = Len(Hosts)

\* --------------------------------------------------------- authorization

\* The answer is the letter y, in either case, with nothing but white space around it.
IsYes(line) ==
  \E i \in DOMAIN line :
    /\ line[i] \in {"y", "Y"}
    /\ \A j \in DOMAIN line \ {i} : line[j] \in {" ", "\t", "\r", "\n"}

\* Nothing of a run has happened.
NothingRun ==
  /\ Hosts = <<>> /\ allDiscoveredHosts = <<>> /\ discoveredHosts = <<>> /\ allHosts = <<>>
  /\ probes = <<>> /\ pingResult = <<>> /\ dials = <<>> /\ scanOK = <<>> /\ httpResult = <<>>
  /\ output = NoOutput /\ tmpfile = "none" /\ section = 0 /\ mutex = Unlocked

\* C30: validation and every later step of the run happen only after an answer that is y once
\* trimmed and lower-cased; after any other answer, the empty one and the end of the input
\* included, the program has ended and nothing of a run has happened.
C30_AuthorizationGate ==
  /\ pc \notin {"prompt", "exit"} => IsYes(response)
  /\ pc = "exit" => ~IsYes(response) /\ NothingRun
  /\ pc = "prompt" => NothingRun

\* The operator answered with a tab and a capital Y, and the run is writing its report.
C30_Witness ==
  /\ pc = "gr_read"
  /\ response = <<"\t", "Y", "\r", "\n">>
  /\ Hosts # <<>>

\* ------------------------------------------------------- order of the phases

FallbackProbed(host) == Count(probes, <<"fallback", host, 0>>)

\* C31: a fallback probe starts only when every ping has returned; only hosts of the expanded
\* list that did not answer the ping get one; and when phase 2 is over every host that did not
\* answer the ping has had one.
C31_FallbackForNonResponders ==
  /\ (\E h \in Range(allHosts) : FallbackProbed(h) > 0) =>
       /\ AfterP1
       /\ \A h \in Range(allHosts) : Count(probes, <<"ping", h, 0>>) > 0 => h \in DOMAIN pingResult
  /\ \A key \in DOMAIN probes :
       key[1] = "fallback" => key[2] \in Range(allHosts) /\ ~PingOK(key[2])
  /\ AfterP2 => \A h \in Range(allHosts) : ~PingOK(h) => FallbackProbed(h) = 1

\* The fallback ports in the order the specification lists them.
FallbackPortOrder == <<80, 443, 22, 21, 25, 53, 135, 139, 445>>

\* C32: the dials of the fallback probe of a host are the ports of the fixed list in its
\* order, from the first on, one after the other; a dial that connects is the last one of
\* the host, and a probe with no connect has dialled the whole list.
C32_FirstConnectEndsProbe ==
  \A h \in DOMAIN dials :
    LET trace == dials[h]
    IN  /\ Len(trace) \in 1..Len(FallbackPortOrder)
        /\ \A k \in DOMAIN trace : trace[k].port = FallbackPortOrder[k]
        /\ \A k \in DOMAIN trace : trace[k].ok => k = Len(trace)
        /\ ~trace[Len(trace)].ok => Len(trace) = Len(FallbackPortOrder)

\* A host failed on 80 and 443 and connected on 22: three dials and no more, while phase 2 runs.
C32_Witness ==
  /\ pc \in P2Pcs
  /\ \E h \in DOMAIN dials :
       dials[h] = <<[port |-> 80, ok |-> FALSE], [port |-> 443, ok |-> FALSE], [port |-> 22, ok |-> TRUE]>>

\* No goroutine of a worker loop is alive.
NoWorker == wg = 0 /\ busy = {} /\ DOMAIN scan = {}

\* From the start of the report on, a step leaves the store as it is.
StoreFrozen == (pc \in ReportPcs \/ pc = "done") => UNCHANGED Hosts

\* C33: when the fast scan starts and while it runs outside its fallback, no goroutine of
\* host discovery is alive; when service identification or the report runs, no goroutine of
\* any loop is alive and the fast scan has removed its file; and from the start of the report
\* on, the store is not written.
C33_PhaseOrder ==
  /\ [](pc \in EnsurePcs \cup MSPcs => NoWorker /\ DiscoveryReturned)
  /\ [](pc \in SEPcs \cup ReportPcs => NoWorker /\ tmpfile # "exists" /\ output = NoOutput)
  /\ [](pc \in ReportPcs => mutex.writer = NoThread)
  /\ [][StoreFrozen]_vars

\* Two goroutines of the fallback port scan have written the ports of two hosts, service
\* identification has labelled them, and the report reads the store.
C33_Witness ==
  /\ pc = "gr_read"
  /\ DiscoveryMode = "active"
  /\ Threads = 2
  /\ Len(allDiscoveredHosts) = 2
  /\ \A k \in DOMAIN Hosts : Hosts[k].Ports # <<>> /\ Hosts[k].Ports[1].Service # ""
  /\ tmpfile = "none"

\* ------------------------------------------------------------ termination

\* C35: the loop over a CIDR block ends: once as many addresses as the block holds have been
\* appended, the address the increment gives is outside the block and the loop test fails,
\* for a block that ends at 255.255.255.255 and for the block of prefix length 0 as well.
C35_LoopEnds ==
  (cidr.pc = "loop" /\ cidr.left <= 0) => ~Contains(cidr.network, cidr.ones, cidr.ip)

\* The main goroutine, or the goroutine that scans a host, is about to take the store's lock.
AboutToLock(thread) ==
  IF thread = MainThread
    THEN \/ pc \in {"pd_lock", "hd_lock", "rs_lock", "ms_lock", "ms_rlock", "gr_rlock"}
         \/ pc = "se_lock" /\ seI <= Len(allDiscoveredHosts)
    ELSE thread \in DOMAIN scan /\ scan[thread].pc = "lock"

\* C34: a run whose probes and external calls all return ends, whatever the interleaving of
\* its goroutines; no goroutine takes the store's lock while it holds it; and a goroutine
\* with nothing to receive finds its channel closed and leaves, so every wait of a loop returns.
C34_RunTerminates ==
  /\ <>(pc = "done")
  /\ [](\A thread \in {MainThread} \cup DOMAIN scan : AboutToLock(thread) => ~HoldsLock(thread))
  /\ [](pc \in {"p1_wait", "p2_wait", "ps_wait"} ~> wg = 0)

\* ------------------------------------------------------------ fast-scan frame

\* The store has a record of the host with the port.
Recorded(host, port) ==
  \E k \in DOMAIN Hosts :
    Hosts[k].Host = host /\ \E j \in DOMAIN Hosts[k].Ports : Hosts[k].Ports[j].Port = port

\* C36: when MasscanScan has returned the mapping parsed from the output of masscan, every
\* port of every host of the mapping is in the store under that host, also for a host that
\* the output names and the host list does not.
C36_ReturnedPairsStored ==
  (pc = "rs_after" /\ output.kind = "ok") =>
    \A h \in DOMAIN masscanResults :
      \A k \in DOMAIN masscanResults[h] : Recorded(h, masscanResults[h][k].Port)
\* One step leaves everything of the store but the service labels as it was, and leaves
\* whole the records of the hosts that are not in the argument.
LabelsOnly ==
  /\ pc \in SEPcs
  /\ Len(Hosts') = Len(Hosts)
  /\ \A k \in DOMAIN Hosts :
       /\ Hosts'[k].Host = Hosts[k].Host
       /\ Hosts'[k].Status = Hosts[k].Status
       /\ Len(Hosts'[k].Ports) = Len(Hosts[k].Ports)
       /\ \A j \in DOMAIN Hosts[k].Ports :
            /\ Hosts'[k].Ports[j].Port = Hosts[k].Ports[j].Port
            /\ Hosts'[k].Ports[j].State = Hosts[k].Ports[j].State
       /\ Hosts[k].Host \notin Range(allDiscoveredHosts) => Hosts'[k] = Hosts[k]

\* C37: every step of ServiceEnumeration keeps the number and the order of the host
\* records, each record's host and status, the number and the order of its port records
\* and every port number and state, and changes nothing in the record of a host that is not
\* in the argument: only service labels differ after the call.
C37_OnlyLabelsChange == [][LabelsOnly]_vars

\* The call has returned, it has labelled the ports of a host of the argument, and the
\* store holds a record with a port of a host that is not in the argument.
C37_Witness ==
  /\ pc = "gr_start"
  /\ \E k, m \in DOMAIN Hosts :
       /\ Hosts[k].Host \in Range(allDiscoveredHosts)
       /\ Hosts[k].Ports # <<>> /\ Hosts[k].Ports[1].Service # ""
       /\ Hosts[m].Host \notin Range(allDiscoveredHosts)
       /\ Hosts[m].Ports # <<>> /\ Hosts[m].Ports[1].Service = ""

\* The step of scanHostPorts(host) that updates the store.
StoreUpdateOf(host) ==
  /\ scan[host].pc = "update"
  /\ host \in DOMAIN scan' /\ scan'[host].pc = "unlock"

\* While PortScan runs the store changes in the update of one scan only; the update of the
\* scan of a host without a record leaves the store as it was, and the update of any scan
\* keeps the records of the other hosts.
ScanFrame ==
  /\ (pc \in PSPcs /\ Hosts' # Hosts) => \E h \in DOMAIN scan : StoreUpdateOf(h)
  /\ \A h \in DOMAIN scan :
       StoreUpdateOf(h) =>
         /\ Len(Hosts') = Len(Hosts)
         /\ ~InStore(h) => Hosts' = Hosts
         /\ \A k \in DOMAIN Hosts : Hosts[k].Host # h => Hosts'[k] = Hosts[k]

\* C38: the port scan of a host that has no record leaves the store unchanged, whatever
\* ports it found open, and the port scan of a host changes no record of another host.
C38_ScanTouchesOwnRecord == [][ScanFrame]_vars

\* The scan of a host without a record has found open ports and has done its update, and
\* the scan of another host has replaced the ports of that host's record; the store holds
\* no record of the first host.
C38_Witness ==
  \E h \in DOMAIN scan :
    /\ scan[h].pc = "unlock"
    /\ scan[h].openPorts # <<>>
    /\ ~InStore(h)
    /\ \E other \in DOMAIN scanOK : other # h /\ ScannedInStore(other) /\ PortsOf(other) # <<>>

\* The step in which os.CreateTemp fails is the return of the adapter: the mapping returned
\* is empty and the step changes neither the store nor the record of what was started.
NoFileReturn ==
  (pc = "ms_start" /\ output'.kind = "nofile") =>
    /\ pc' = "rs_after"
    /\ masscanResults' = <<>>
    /\ Hosts' = Hosts
    /\ UNCHANGED <<UnresponsiveHosts, tmpfile, busy, scan, history>>

\* C39: when masscan is in the PATH and the temporary file cannot be created, MasscanScan
\* returns at once with an empty mapping: no masscan process has been started, no port of
\* any host has been dialled, no port scan has run and the store is as it was at the call.
C39_NoTempFileReturnsEmpty ==
  /\ []((output.kind = "nofile") =>
          /\ pc = "rs_after"
          /\ masscanResults = <<>>
          /\ probes = <<>> /\ dials = <<>> /\ scanOK = <<>>
          /\ busy = {} /\ scan = <<>>
          /\ tmpfile # "exists")
  /\ [][NoFileReturn]_vars

\* The adapter has returned for want of a temporary file, called with hosts on a store that
\* holds records.
C39_Witness ==
  /\ pc = "rs_after"
  /\ output.kind = "nofile"
  /\ allDiscoveredHosts # <<>>
  /\ Hosts # <<>>

====
